---- MODULE Spec2Model ----
(***************************************************************************)
(* Model of the macOS-agent orchestration code:                            *)
(*   - MasterAgent (src/master-agent.py): plan, plan review, execute_steps,*)
(*     final inference, process exit code;                                 *)
(*   - AppleScriptHandler (src/subagents/applescript.py): the 5-attempt    *)
(*     step controller with approval gate, executor, verifier and human    *)
(*     confirmation, and its internal_context lists;                       *)
(*   - research.handle (src/subagents/research.py);                        *)
(*   - Agent (src/agent.py): the legacy single-classification run with the *)
(*     3-attempt AppleScript controller and the browser handler.           *)
(*                                                                         *)
(* Language-model services, the osascript process, the browser driver and  *)
(* the human at the console are the environment: every call to one of them *)
(* is one action per outcome the code distinguishes.  Text payloads        *)
(* (scripts, outputs, summaries) are opaque to the control flow: a         *)
(* generated proposal is represented by a fresh number, and an output or   *)
(* an assessment by the number of the script it belongs to.                *)
(***************************************************************************)
EXTENDS Integers, Sequences, FiniteSets, TLC

\* -------------------------------------------------------------- bounds
\* Longest plan the Planner returns in the model.
MaxSteps == 2
\* Number of proposals (scripts / extractions) the Generator returns in one
\* run; once reached, every further Generator call fails.
MaxProposals == 3
\* The same, in the runs of InitStep that explore one step in depth.
MaxStepProposals == 6

\* ----------------------------------------------------- program constants
\* A cap one attempt too generous.
max_attempts_off_by_one == 5 + 1
\* applescript.py:278  max_attempts = 5
max_attempts == 5
\* agent.py:252  for attempt in range(1, 4)
legacy_attempts == 3

\* master-agent.py:32-36  class TaskType
MasterTaskType == {"browser", "applescript", "terminal", "web_search"}
\* agent.py:43-46  class TaskType
LegacyTaskType == {"browser", "applescript", "automation"}

\* A handler map that would send every other classification to applescript.
get_handler_all_registered(task_type) ==
    IF task_type = "web_search" THEN "research" ELSE "applescript"
\* master-agent.py:158-165  get_handler: handler_map.get(task_type)
get_handler(task_type) ==
    IF task_type = "web_search" THEN "research"
    ELSE IF task_type = "applescript" THEN "applescript"
    ELSE "None"

\* applescript.py:297, agent.py:265  execution_result before the executor ran
NoResult == [success |-> FALSE, return_code |-> 0, kind |-> "none"]
\* applescript.py:301, agent.py:273  verification before the verifier ran
NoVerification == [accomplished |-> FALSE, summary |-> "none"]
\* applescript.py:240, agent.py:433  the rationale of the fallback judgment
Degraded == "Verification failed, using execution result"

VARIABLES
    prog,               \* which entry point runs: "master" | "legacy"
    pc,                 \* position of the single thread of control
    exit_code,          \* the exit status 0 | 1; -1 while the process runs
    plan,               \* master: ExecutionPlan.steps (task classifications)
                        \* legacy: classification.steps (all of taskType)
    taskType,           \* legacy: classification.taskType
    step_i,             \* 1-based index of the step the walk is at
    invoked,            \* per step: number of handler invocations
    resolved,           \* per attempted step: how it ended
    context,            \* MasterAgent.context
    context_string,     \* MasterAgent.context_string (appended summaries)
    attempt,            \* the controller's attempt counter
    script,             \* controller local: the generated proposal
    current_script,     \* gate local: the proposal on display
    approved_script,    \* the proposal handed to the executor
    execution_result,   \* the executor's outcome record
    verification,       \* the verifier's judgment (accomplished/success)
    internal_context,   \* AppleScriptHandler.internal_context
    handler_instance,   \* applescript._handler_instance is not None
    gate_result,        \* what the approval gate last returned
    genCalls,           \* Generator calls in the current step
    execCalls,          \* executor invocations in the current step
    verifyCalls,        \* verifier calls in the current step
    gateGenCalls,       \* Generator calls inside the current gate call
    gateFeedbacks,      \* reject-with-feedback answers in that gate call
    forced,             \* so far in this step: every Generator call returned,
                        \* every answer was accept, every execution failed,
                        \* every verifier answer was not-accomplished
    proposals,          \* proposals returned by the Generator in this run
    final_summary,      \* the end-of-run report: "none" | "service" |
                        \* "fallback" | "error_printed"
    execution_history,  \* Agent.execution_history
    attempted_scripts,  \* _execute_applescript_step local
    successful_steps,   \* legacy handler local
    local_context,      \* legacy handler local `context`
    handler_success,    \* what route_to_handler returned (FALSE until then)
    chrome_process,     \* _async_browser_handler local: "None" | "running" |
                        \* "terminated"
    chrome_spawned,     \* a Chrome process was started by Popen
    chrome_alive,       \* that process has not been terminated
    plan_answer,        \* the human's last y/n answer at the plan review
                        \* prompt: "none" | "y" | "n"
    scope_steps,        \* longest plan explored in this behaviour
    scope_proposals     \* proposals the Generator returns in this behaviour

vars == << prog, pc, exit_code, plan, taskType, step_i, invoked, resolved,
           context, context_string, attempt, script, current_script,
           approved_script, execution_result, verification, internal_context,
           handler_instance, gate_result, genCalls, execCalls, verifyCalls, gateGenCalls,
           gateFeedbacks, forced, proposals, final_summary, execution_history,
           attempted_scripts, successful_steps, local_context,
           handler_success, chrome_process, chrome_spawned, chrome_alive,
           plan_answer, scope_steps, scope_proposals >>

legacyVars == << execution_history, attempted_scripts, successful_steps,
                 local_context, handler_success, chrome_process,
                 chrome_spawned, chrome_alive >>
masterVars == << context, context_string, internal_context, handler_instance >>
runVars == << prog, plan, taskType, plan_answer, scope_steps,
             scope_proposals >>
walkVars == << step_i, invoked, resolved, context, context_string >>
stepVars == << attempt, script, current_script, approved_script,
               execution_result, verification, gate_result >>
ghostVars == << genCalls, execCalls, verifyCalls, gateGenCalls, gateFeedbacks,
               forced >>

\* applescript.py:25-34  AppleScriptHandler.__init__
EmptyInternalContext ==
    [ proposed_scripts   |-> << >>,
      user_approvals     |-> << >>,
      user_feedback      |-> << >>,
      executed_scripts   |-> << >>,
      execution_outputs  |-> << >>,
      llm_assessments    |-> << >>,
      user_confirmations |-> << >>,
      failure_reasons    |-> << >> ]

\* applescript.py:36-40  _add_to_internal_context
add_to_internal_context(ic, category, data) ==
    [ic EXCEPT ![category] = Append(@, data)]

\* master-agent.py:42-43  ExecutionPlan: steps, a list of classified steps
Plans(types) == UNION { [1..n -> types] : n \in 0..scope_steps }

\* master-agent.py:46-49, applescript.py:340, agent.py:72-75  the state of a
\* freshly constructed MasterAgent or Agent before run() is called
InitRun ==
    /\ prog \in {"master", "legacy"}
    /\ pc = IF prog = "master" THEN "generate_plan" ELSE "classify_task"
    /\ exit_code = -1
    /\ plan = << >>
    /\ taskType = "none"
    /\ step_i = 1
    /\ invoked = [k \in 1..scope_steps |-> 0]
    /\ resolved = << >>
    /\ context = << >>
    /\ context_string = << >>
    /\ attempt = 0
    /\ script = 0
    /\ current_script = 0
    /\ approved_script = 0
    /\ execution_result = NoResult
    /\ verification = NoVerification
    /\ internal_context = EmptyInternalContext
    /\ handler_instance = FALSE
    /\ gate_result = "none"
    /\ genCalls = 0
    /\ execCalls = 0
    /\ verifyCalls = 0
    /\ gateGenCalls = 0
    /\ gateFeedbacks = 0
    /\ forced = FALSE
    /\ proposals = 0
    /\ final_summary = "none"
    /\ execution_history = << >>
    /\ attempted_scripts = << >>
    /\ successful_steps = 0
    /\ local_context = << >>
    /\ handler_success = FALSE
    /\ chrome_process = "None"
    /\ chrome_spawned = FALSE
    /\ chrome_alive = FALSE
    /\ plan_answer = "none"

\* A run over plans of up to MaxSteps steps.
Init ==
    /\ scope_steps = MaxSteps
    /\ scope_proposals = MaxProposals
    /\ InitRun

\* A run over plans of at most one step, with a Generator that returns
\* enough proposals for every attempt of the step.
InitStep ==
    /\ scope_steps = 1
    /\ scope_proposals = MaxStepProposals
    /\ InitRun

\* ------------------------------------------------------------ helpers
Last(s) == s[Len(s)]

\* The values the controller's locals hold outside an attempt.
ClearStep ==
    /\ script' = 0
    /\ current_script' = 0
    /\ approved_script' = 0
    /\ execution_result' = NoResult
    /\ verification' = NoVerification

\* applescript.py:349-359  generateMarkdown
applescript_generateMarkdown(result) ==
    [ prompt |-> result.prompt,
      text   |-> IF result.error THEN "AppleScript execution failed"
                 ELSE "applescript was run and the step was deemed accomplished" ]

\* research.py:62-78  generateMarkdown
research_generateMarkdown(result) ==
    [ prompt |-> result.prompt,
      text   |-> IF result.error THEN "search encountered an error"
                 ELSE "search found the following information" ]

\* master-agent.py:192  handler_module.generateMarkdown(result)
generateMarkdown(result) ==
    IF result.handler_type = "applescript"
    THEN applescript_generateMarkdown(result)
    ELSE research_generateMarkdown(result)

\* applescript.py:310-316  the success outcome of handle
SuccessResult ==
    [ handler_type |-> "applescript", prompt |-> step_i,
      applescript |-> approved_script, error |-> FALSE, summary_attempts |-> 0 ]

\* applescript.py:328-337  the failure outcome of handle
FailureResult ==
    [ handler_type |-> "applescript", prompt |-> step_i,
      applescript |-> 0, error |-> TRUE, summary_attempts |-> max_attempts ]

\* applescript.py:328-337, research.py:52-60  how a returned outcome is
\* classified: a result carrying the error flag is a step that resolved Failure.
OutcomeOf(result) == IF result.error THEN "failure" ELSE "success"

\* A walk that would keep the result but drop the step's summary.
execute_steps_handler_returned_no_summary(result) ==
    /\ context' = Append(context, result)
    /\ resolved' = Append(resolved, OutcomeOf(result))
    /\ step_i' = step_i + 1
    /\ pc' = "execute_steps"
    /\ UNCHANGED << invoked, context_string >>

\* A walk that would stay on the step whose handler just returned.
execute_steps_handler_returned_same_step(result) ==
    /\ context' = Append(context, result)
    /\ context_string' = Append(context_string, generateMarkdown(result))
    /\ resolved' = Append(resolved, OutcomeOf(result))
    /\ pc' = "execute_steps"
    /\ UNCHANGED << invoked, step_i >>

\* A walk that would put the newest result and summary first.
execute_steps_handler_returned_prepends(result) ==
    /\ context' = << result >> \o context
    /\ context_string' = << generateMarkdown(result) >> \o context_string
    /\ resolved' = Append(resolved, OutcomeOf(result))
    /\ step_i' = step_i + 1
    /\ pc' = "execute_steps"
    /\ UNCHANGED invoked

\* master-agent.py:186-195  the handler returned `result`: execute_steps
\* appends it to the context, appends its markdown and goes to the next step.
execute_steps_handler_returned(result) ==
    /\ context' = Append(context, result)
    /\ context_string' = Append(context_string, generateMarkdown(result))
    /\ resolved' = Append(resolved, OutcomeOf(result))
    /\ step_i' = step_i + 1
    /\ pc' = "execute_steps"
    /\ UNCHANGED invoked

\* An except clause that would go on to the next step.
execute_steps_handler_raised_continue ==
    /\ resolved' = Append(resolved, "raised")
    /\ step_i' = step_i + 1
    /\ pc' = "execute_steps"
    /\ UNCHANGED << invoked, context, context_string >>
\* master-agent.py:197-199  except Exception: print, break
execute_steps_handler_raised ==
    /\ resolved' = Append(resolved, "raised")
    /\ pc' = "generate_final_inference"
    /\ UNCHANGED << step_i, invoked, context, context_string >>

\* ------------------------------------------------- MasterAgent.run

\* master-agent.py:57-92  generate_plan: the Planner returns a plan
MA_generate_plan ==
    /\ prog = "master" /\ pc = "generate_plan"
    /\ UNCHANGED legacyVars
    /\ plan' \in Plans(MasterTaskType)
    /\ pc' = "get_user_approval"
    /\ UNCHANGED << prog, taskType, plan_answer, scope_steps, scope_proposals,
                    exit_code, walkVars, stepVars, ghostVars,
                    internal_context, handler_instance, proposals,
                    final_summary >>

\* master-agent.py:93-95  generate_plan: the Planner raises, sys.exit(1)
MA_generate_plan_fails ==
    /\ prog = "master" /\ pc = "generate_plan"
    /\ UNCHANGED legacyVars
    /\ exit_code' = 1
    /\ pc' = "exited"
    /\ UNCHANGED << runVars, walkVars, stepVars, ghostVars, internal_context,
                    handler_instance, proposals, final_summary >>

\* master-agent.py:116-119  get_user_approval: y / yes
MA_get_user_approval_yes ==
    /\ prog = "master" /\ pc = "get_user_approval"
    /\ UNCHANGED legacyVars
    /\ plan_answer' = "y"
    /\ pc' = "execute_steps"
    /\ UNCHANGED << prog, plan, taskType, scope_steps, scope_proposals,
                    exit_code, walkVars, stepVars, ghostVars,
                    internal_context, handler_instance, proposals,
                    final_summary >>

\* A review that would run the Planner's new plan without showing it.
MA_get_user_approval_replan_unreviewed ==
    /\ prog = "master" /\ pc = "get_user_approval"
    /\ UNCHANGED legacyVars
    /\ plan' \in Plans(MasterTaskType)
    /\ pc' = "execute_steps"
    /\ plan_answer' = "n"
    /\ UNCHANGED << prog, taskType, scope_steps, scope_proposals, exit_code,
                    walkVars, stepVars, ghostVars, internal_context,
                    handler_instance, proposals, final_summary >>

\* master-agent.py:120-149  n with feedback, the Planner returns a new plan
MA_get_user_approval_replan ==
    /\ prog = "master" /\ pc = "get_user_approval"
    /\ UNCHANGED legacyVars
    /\ plan' \in Plans(MasterTaskType)
    /\ plan_answer' = "n"
    /\ UNCHANGED << prog, taskType, scope_steps, scope_proposals, pc, exit_code, walkVars, stepVars,
                    ghostVars, internal_context, handler_instance, proposals,
                    final_summary >>

\* master-agent.py:150-152  n with feedback, the Planner raises: return plan
MA_get_user_approval_replan_fails ==
    /\ prog = "master" /\ pc = "get_user_approval"
    /\ UNCHANGED legacyVars
    /\ plan_answer' = "n"
    /\ pc' = "execute_steps"
    /\ UNCHANGED << prog, plan, taskType, scope_steps, scope_proposals,
                    exit_code, walkVars, stepVars, ghostVars,
                    internal_context, handler_instance, proposals,
                    final_summary >>

\* master-agent.py:153-154  n with empty feedback: sys.exit(1)
MA_get_user_approval_abort ==
    /\ prog = "master" /\ pc = "get_user_approval"
    /\ UNCHANGED legacyVars
    /\ plan_answer' = "n"
    /\ exit_code' = 1
    /\ pc' = "exited"
    /\ UNCHANGED << prog, plan, taskType, scope_steps, scope_proposals,
                    walkVars, stepVars, ghostVars, internal_context,
                    handler_instance, proposals, final_summary >>

\* master-agent.py:155-156  any other answer: print, loop
MA_get_user_approval_unrecognized ==
    /\ prog = "master" /\ pc = "get_user_approval"
    /\ UNCHANGED vars

\* master-agent.py:173  the for loop is exhausted
MA_execute_steps_done ==
    /\ prog = "master" /\ pc = "execute_steps"
    /\ UNCHANGED legacyVars
    /\ step_i > Len(plan)
    /\ pc' = "generate_final_inference"
    /\ UNCHANGED << runVars, exit_code, walkVars, stepVars, ghostVars,
                    internal_context, handler_instance, proposals,
                    final_summary >>

\* master-agent.py:177-182  no handler for the step's classification: break
MA_execute_steps_no_handler ==
    /\ prog = "master" /\ pc = "execute_steps"
    /\ UNCHANGED legacyVars
    /\ step_i <= Len(plan)
    /\ get_handler(plan[step_i]) = "None"
    /\ resolved' = Append(resolved, "no_handler")
    /\ pc' = "generate_final_inference"
    /\ UNCHANGED << runVars, exit_code, step_i, invoked, context,
                    context_string, stepVars, ghostVars, internal_context,
                    handler_instance, proposals, final_summary >>

\* master-agent.py:186 with research.py:16  research.handle is called
MA_execute_steps_call_research ==
    /\ prog = "master" /\ pc = "execute_steps"
    /\ UNCHANGED legacyVars
    /\ step_i <= Len(plan)
    /\ get_handler(plan[step_i]) = "research"
    /\ invoked' = [invoked EXCEPT ![step_i] = @ + 1]
    /\ pc' = "research_handle"
    /\ genCalls' = 0 /\ execCalls' = 0 /\ verifyCalls' = 0 /\ gateGenCalls' = 0 /\ gateFeedbacks' = 0
    /\ forced' = FALSE
    /\ UNCHANGED << runVars, exit_code, step_i, resolved, context,
                    context_string, stepVars, internal_context,
                    handler_instance, proposals, final_summary >>

\* master-agent.py:186 with applescript.py:342-347, 278-279: the module's
\* handle creates the handler on first use and enters AppleScriptHandler.handle
MA_execute_steps_call_applescript ==
    /\ prog = "master" /\ pc = "execute_steps"
    /\ UNCHANGED legacyVars
    /\ step_i <= Len(plan)
    /\ get_handler(plan[step_i]) = "applescript"
    /\ invoked' = [invoked EXCEPT ![step_i] = @ + 1]
    /\ handler_instance' = TRUE
    /\ internal_context' =
         IF handler_instance THEN internal_context ELSE EmptyInternalContext
    /\ attempt' = 0
    /\ gate_result' = "none"
    /\ ClearStep
    /\ pc' = "as_attempt"
    /\ genCalls' = 0 /\ execCalls' = 0 /\ verifyCalls' = 0 /\ gateGenCalls' = 0 /\ gateFeedbacks' = 0
    /\ forced' = TRUE
    /\ UNCHANGED << runVars, exit_code, step_i, resolved, context,
                    context_string, proposals, final_summary >>

\* research.py:27-50  the search returns
RS_handle ==
    /\ prog = "master" /\ pc = "research_handle"
    /\ UNCHANGED legacyVars
    /\ execute_steps_handler_returned(
         [ handler_type |-> "web_search", prompt |-> step_i, applescript |-> 0,
           error |-> FALSE, summary_attempts |-> 0 ])
    /\ UNCHANGED << runVars, exit_code, stepVars, ghostVars, internal_context,
                    handler_instance, proposals, final_summary >>

\* research.py:52-60  the search raises: an error result is returned
RS_handle_error ==
    /\ prog = "master" /\ pc = "research_handle"
    /\ UNCHANGED legacyVars
    /\ execute_steps_handler_returned(
         [ handler_type |-> "web_search", prompt |-> step_i, applescript |-> 0,
           error |-> TRUE, summary_attempts |-> 0 ])
    /\ UNCHANGED << runVars, exit_code, stepVars, ghostVars, internal_context,
                    handler_instance, proposals, final_summary >>

\* master-agent.py:201-227, 252 and the normal end of main(): exit status 0
MA_generate_final_inference ==
    /\ prog = "master" /\ pc = "generate_final_inference"
    /\ UNCHANGED legacyVars
    /\ final_summary' = "service"
    /\ exit_code' = 0
    /\ pc' = "exited"
    /\ UNCHANGED << runVars, walkVars, stepVars, ghostVars, internal_context,
                    handler_instance, proposals >>

\* master-agent.py:229-230, 252  the summary service raises: print(e)
MA_generate_final_inference_fails ==
    /\ prog = "master" /\ pc = "generate_final_inference"
    /\ UNCHANGED legacyVars
    /\ final_summary' = "error_printed"
    /\ exit_code' = 0
    /\ pc' = "exited"
    /\ UNCHANGED << runVars, walkVars, stepVars, ghostVars, internal_context,
                    handler_instance, proposals >>

\* ------------------------------------- AppleScriptHandler (multi-step)

\* applescript.py:328-337, 347 and master-agent.py:186-195: handle gives up,
\* returns the failure outcome, and execute_steps takes it
AS_return_failure ==
    /\ execute_steps_handler_returned(FailureResult)
    /\ ClearStep

\* applescript.py:287-289, 317-326  continue: back to the head of the loop
AS_continue ==
    /\ pc' = "as_attempt"
    /\ ClearStep
    /\ UNCHANGED << walkVars, gate_result >>

\* applescript.py:281-286, 94-124  a new attempt; the Generator returns a
\* script, which is recorded in proposed_scripts; the gate is entered
AS_generate ==
    /\ prog = "master" /\ pc = "as_attempt"
    /\ UNCHANGED legacyVars
    /\ attempt < max_attempts
    /\ proposals < scope_proposals
    /\ attempt' = attempt + 1
    /\ proposals' = proposals + 1
    /\ script' = proposals + 1
    /\ current_script' = proposals + 1
    /\ internal_context' =
         add_to_internal_context(internal_context, "proposed_scripts", proposals + 1)
    /\ pc' = "as_approval"
    /\ approved_script' = 0
    /\ execution_result' = NoResult
    /\ verification' = NoVerification
    /\ gate_result' = "none"
    /\ genCalls' = genCalls + 1
    /\ gateGenCalls' = 0
    /\ gateFeedbacks' = 0
    /\ UNCHANGED << runVars, exit_code, walkVars, handler_instance,
                    execCalls, verifyCalls, forced, final_summary >>

\* A loop head that would retry a failed Generator call without counting the
\* attempt.
AS_generate_fails_uncounted ==
    /\ prog = "master" /\ pc = "as_attempt"
    /\ UNCHANGED legacyVars
    /\ attempt < max_attempts
    /\ genCalls < max_attempts
    /\ genCalls' = genCalls + 1
    /\ forced' = FALSE
    /\ AS_continue
    /\ UNCHANGED << runVars, exit_code, attempt, internal_context,
                    handler_instance, execCalls, verifyCalls, gateGenCalls,
                    gateFeedbacks, proposals, final_summary >>

\* applescript.py:281-289, 126-128  a new attempt; the Generator raises,
\* _generate_applescript returns None: continue
AS_generate_fails ==
    /\ prog = "master" /\ pc = "as_attempt"
    /\ UNCHANGED legacyVars
    /\ attempt < max_attempts
    /\ attempt' = attempt + 1
    /\ genCalls' = genCalls + 1
    /\ forced' = FALSE
    /\ AS_continue
    /\ UNCHANGED << runVars, exit_code, internal_context, handler_instance,
                    execCalls, verifyCalls, gateGenCalls, gateFeedbacks, proposals, final_summary >>

\* A loop that would start over when its attempts are used up.
AS_attempts_exhausted_starts_over ==
    /\ prog = "master" /\ pc = "as_attempt"
    /\ UNCHANGED legacyVars
    /\ attempt >= max_attempts
    /\ attempt' = 0
    /\ genCalls' = 0 /\ execCalls' = 0 /\ verifyCalls' = 0
    /\ forced' = FALSE
    /\ AS_continue
    /\ UNCHANGED << runVars, exit_code, internal_context, handler_instance,
                    gateGenCalls, gateFeedbacks, proposals, final_summary >>

\* applescript.py:281, 328-337  the while condition is false
AS_attempts_exhausted ==
    /\ prog = "master" /\ pc = "as_attempt"
    /\ UNCHANGED legacyVars
    /\ attempt >= max_attempts
    /\ AS_return_failure
    /\ UNCHANGED << runVars, exit_code, attempt, gate_result, ghostVars,
                    internal_context, handler_instance, proposals,
                    final_summary >>

\* A gate that would accept a proposal without recording the decision.
AS_approval_yes_unrecorded ==
    /\ prog = "master" /\ pc = "as_approval"
    /\ UNCHANGED legacyVars
    /\ approved_script' = current_script
    /\ gate_result' = "approved"
    /\ pc' = "as_execute"
    /\ UNCHANGED << runVars, exit_code, walkVars, attempt, script,
                    current_script, execution_result, verification,
                    internal_context, handler_instance, ghostVars, proposals,
                    final_summary >>

\* applescript.py:141-145, 292-293  y / yes: (True, current_script)
AS_approval_yes ==
    /\ prog = "master" /\ pc = "as_approval"
    /\ UNCHANGED legacyVars
    /\ internal_context' =
         add_to_internal_context(internal_context, "user_approvals", TRUE)
    /\ approved_script' = current_script
    /\ gate_result' = "approved"
    /\ pc' = "as_execute"
    /\ UNCHANGED << runVars, exit_code, walkVars, attempt, script,
                    current_script, execution_result, verification,
                    handler_instance, ghostVars, proposals, final_summary >>

\* A gate whose regeneration would count as a new attempt of the step.
AS_approval_no_regenerate_counted ==
    /\ prog = "master" /\ pc = "as_approval"
    /\ UNCHANGED legacyVars
    /\ proposals < scope_proposals
    /\ attempt < max_attempts
    /\ attempt' = attempt + 1
    /\ proposals' = proposals + 1
    /\ internal_context' =
         add_to_internal_context(
           add_to_internal_context(
             add_to_internal_context(internal_context, "user_approvals", FALSE),
             "user_feedback", "feedback"),
           "proposed_scripts", proposals + 1)
    /\ current_script' = proposals + 1
    /\ genCalls' = genCalls + 1
    /\ gateGenCalls' = gateGenCalls + 1
    /\ gateFeedbacks' = gateFeedbacks + 1
    /\ forced' = FALSE
    /\ UNCHANGED << runVars, pc, exit_code, walkVars, script,
                    approved_script, execution_result, verification,
                    handler_instance, gate_result, execCalls, verifyCalls,
                    final_summary >>

\* applescript.py:146-157  n with feedback; the Generator returns a new
\* script, which replaces the one on display
AS_approval_no_regenerate ==
    /\ prog = "master" /\ pc = "as_approval"
    /\ UNCHANGED legacyVars
    /\ proposals < scope_proposals
    /\ proposals' = proposals + 1
    /\ internal_context' =
         add_to_internal_context(
           add_to_internal_context(
             add_to_internal_context(internal_context, "user_approvals", FALSE),
             "user_feedback", "feedback"),
           "proposed_scripts", proposals + 1)
    /\ current_script' = proposals + 1
    /\ genCalls' = genCalls + 1
    /\ gateGenCalls' = gateGenCalls + 1
    /\ gateFeedbacks' = gateFeedbacks + 1
    /\ forced' = FALSE
    /\ UNCHANGED << runVars, pc, exit_code, walkVars, attempt, script,
                    approved_script, execution_result, verification,
                    handler_instance, gate_result, execCalls, verifyCalls, final_summary >>

\* applescript.py:146-160, 293-295, 328-337  n with feedback; the Generator
\* raises: the gate returns (False, feedback), handle breaks out of the loop
AS_approval_no_regenerate_fails ==
    /\ prog = "master" /\ pc = "as_approval"
    /\ UNCHANGED legacyVars
    /\ internal_context' =
         add_to_internal_context(
           add_to_internal_context(internal_context, "user_approvals", FALSE),
           "user_feedback", "feedback")
    /\ gate_result' = "rejected_feedback"
    /\ genCalls' = genCalls + 1
    /\ gateGenCalls' = gateGenCalls + 1
    /\ gateFeedbacks' = gateFeedbacks + 1
    /\ forced' = FALSE
    /\ AS_return_failure
    /\ UNCHANGED << runVars, exit_code, attempt, handler_instance, execCalls, verifyCalls,
                    proposals, final_summary >>

\* A gate that would ask the Generator once more before returning (False, None)
AS_approval_no_silent_regenerating ==
    /\ prog = "master" /\ pc = "as_approval"
    /\ UNCHANGED legacyVars
    /\ internal_context' =
         add_to_internal_context(
           add_to_internal_context(internal_context, "user_approvals", FALSE),
           "user_feedback", "No specific feedback provided")
    /\ gate_result' = "rejected_silent"
    /\ genCalls' = genCalls + 1
    /\ gateGenCalls' = gateGenCalls + 1
    /\ forced' = FALSE
    /\ AS_return_failure
    /\ UNCHANGED << runVars, exit_code, attempt, handler_instance, execCalls, verifyCalls,
                    gateFeedbacks, proposals, final_summary >>

\* applescript.py:146-149, 161-163, 293-295, 328-337  n with empty feedback:
\* the gate returns (False, None), handle breaks out of the loop
AS_approval_no_silent ==
    /\ prog = "master" /\ pc = "as_approval"
    /\ UNCHANGED legacyVars
    /\ internal_context' =
         add_to_internal_context(
           add_to_internal_context(internal_context, "user_approvals", FALSE),
           "user_feedback", "No specific feedback provided")
    /\ gate_result' = "rejected_silent"
    /\ forced' = FALSE
    /\ AS_return_failure
    /\ UNCHANGED << runVars, exit_code, attempt, handler_instance, genCalls,
                    execCalls, verifyCalls, gateGenCalls, gateFeedbacks, proposals, final_summary >>

\* applescript.py:164-165  any other answer: print, loop
AS_approval_unrecognized ==
    /\ prog = "master" /\ pc = "as_approval"
    /\ UNCHANGED vars

\* An executor whose outcome would go back to the loop head unjudged.
AS_executed_unverified(result) ==
    /\ execution_result' = result
    /\ internal_context' =
         add_to_internal_context(
           add_to_internal_context(internal_context, "executed_scripts",
                                   approved_script),
           "execution_outputs", approved_script)
    /\ execCalls' = execCalls + 1
    /\ UNCHANGED verifyCalls
    /\ forced' = (forced /\ ~result.success)
    /\ pc' = "as_attempt"
    /\ UNCHANGED << runVars, exit_code, walkVars, attempt, script,
                    current_script, approved_script, verification,
                    handler_instance, gate_result, genCalls, gateGenCalls, gateFeedbacks,
                    proposals, final_summary >>

\* applescript.py:167-202  what every path of _execute_applescript does with
\* its outcome: record script and output, return the outcome to handle
AS_executed(result) ==
    /\ execution_result' = result
    /\ internal_context' =
         add_to_internal_context(
           add_to_internal_context(internal_context, "executed_scripts",
                                   approved_script),
           "execution_outputs", approved_script)
    /\ execCalls' = execCalls + 1
    /\ UNCHANGED verifyCalls
    /\ forced' = (forced /\ ~result.success)
    /\ pc' = "as_verify"
    /\ UNCHANGED << runVars, exit_code, walkVars, attempt, script,
                    current_script, approved_script, verification,
                    handler_instance, gate_result, genCalls, gateGenCalls, gateFeedbacks,
                    proposals, final_summary >>

\* An outcome record that would report success whatever the exit status.
execution_result_exited_always_success(rc) ==
    [success |-> TRUE, return_code |-> rc, kind |-> "exited"]

\* applescript.py:178-182, agent.py:373-377  the outcome record of a run of
\* osascript that exited with status rc
execution_result_exited(rc) ==
    [success |-> (rc = 0), return_code |-> rc, kind |-> "exited"]

\* applescript.py:193-194, agent.py:392-394  the outcome record of a timeout
execution_result_timeout ==
    [success |-> FALSE, return_code |-> -1, kind |-> "timed out"]

\* applescript.py:198-199, agent.py:395-397  the outcome record of any other
\* exception raised by subprocess.run
execution_result_exception ==
    [success |-> FALSE, return_code |-> -1, kind |-> "exception"]

\* applescript.py:171-191  osascript ran and exited with some status
AS_execute_applescript ==
    /\ prog = "master" /\ pc = "as_execute"
    /\ UNCHANGED legacyVars
    /\ \E rc \in {0, 1} :
         AS_executed(execution_result_exited(rc))

\* applescript.py:193-197  subprocess.TimeoutExpired
AS_execute_applescript_timeout ==
    /\ prog = "master" /\ pc = "as_execute"
    /\ UNCHANGED legacyVars
    /\ AS_executed(execution_result_timeout)

\* applescript.py:198-202  any other exception from subprocess.run
AS_execute_applescript_exception ==
    /\ prog = "master" /\ pc = "as_execute"
    /\ UNCHANGED legacyVars
    /\ AS_executed(execution_result_exception)

\* A handler that would ask the human for confirmation after any judgment.
AS_after_verification_always_confirm(judgment, ic) ==
    /\ verification' = judgment
    /\ verifyCalls' = verifyCalls + 1
    /\ internal_context' = ic
    /\ pc' = "as_confirm"
    /\ UNCHANGED << walkVars, script, current_script, approved_script,
                    execution_result, gate_result >>

\* A handler that would go to the next attempt without asking the human.
AS_after_verification_no_confirmation(judgment, ic) ==
    /\ verification' = judgment
    /\ verifyCalls' = verifyCalls + 1
    /\ internal_context' = ic
    /\ pc' = "as_attempt"
    /\ UNCHANGED << walkVars, script, current_script, approved_script,
                    execution_result, gate_result >>

\* applescript.py:301-326  what handle does with the verifier's judgment
AS_after_verification(judgment, ic) ==
    /\ verification' = judgment
    /\ verifyCalls' = verifyCalls + 1
    /\ IF judgment.accomplished
       THEN /\ internal_context' = ic
            /\ pc' = "as_confirm"
            /\ UNCHANGED << walkVars, script, current_script, approved_script,
                            execution_result, gate_result >>
       ELSE /\ internal_context' =
                 add_to_internal_context(ic, "failure_reasons",
                                         "verification.summary")
            /\ pc' = "as_attempt"
            /\ script' = 0 /\ current_script' = 0 /\ approved_script' = 0
            /\ execution_result' = NoResult
            /\ UNCHANGED << walkVars, gate_result >>

\* A fallback that would report every execution as accomplished.
fallback_verification_accomplished(result) ==
    [accomplished |-> TRUE, summary |-> Degraded]
\* applescript.py:238-241  the fallback judgment when the Verifier raises
fallback_verification(result) ==
    [accomplished |-> result.success, summary |-> Degraded]

\* applescript.py:206-234  the Verifier answers
AS_verify_task_completion ==
    /\ prog = "master" /\ pc = "as_verify"
    /\ UNCHANGED legacyVars
    /\ \E accomplished \in BOOLEAN :
         /\ AS_after_verification(
              [accomplished |-> accomplished, summary |-> "summary"],
              add_to_internal_context(internal_context, "llm_assessments",
                                      approved_script))
         /\ forced' = (forced /\ ~accomplished)
    /\ UNCHANGED << runVars, exit_code, attempt, handler_instance, genCalls,
                    execCalls, gateGenCalls, gateFeedbacks, proposals, final_summary >>

\* applescript.py:236-243  the Verifier raises: the fallback judgment
AS_verify_task_completion_raises ==
    /\ prog = "master" /\ pc = "as_verify"
    /\ UNCHANGED legacyVars
    /\ AS_after_verification(fallback_verification(execution_result),
         add_to_internal_context(internal_context, "llm_assessments",
                                 approved_script))
    /\ forced' = FALSE
    /\ UNCHANGED << runVars, exit_code, attempt, handler_instance, genCalls,
                    execCalls, gateGenCalls, gateFeedbacks, proposals, final_summary >>

\* applescript.py:247-251, 308-316 and master-agent.py:186-195  y / yes:
\* handle returns the success outcome
AS_confirmation_yes ==
    /\ prog = "master" /\ pc = "as_confirm"
    /\ UNCHANGED legacyVars
    /\ internal_context' =
         add_to_internal_context(internal_context, "user_confirmations", TRUE)
    /\ execute_steps_handler_returned(SuccessResult)
    /\ ClearStep
    /\ UNCHANGED << runVars, exit_code, attempt, gate_result, handler_instance,
                    ghostVars, proposals, final_summary >>

\* applescript.py:252-257, 317-321  n with feedback: continue
AS_confirmation_no_feedback ==
    /\ prog = "master" /\ pc = "as_confirm"
    /\ UNCHANGED legacyVars
    /\ internal_context' =
         add_to_internal_context(
           add_to_internal_context(internal_context, "user_confirmations", FALSE),
           "failure_reasons", "feedback")
    /\ AS_continue
    /\ UNCHANGED << runVars, exit_code, attempt, handler_instance, ghostVars,
                    proposals, final_summary >>

\* A confirmation prompt that would record the denial without feedback but
\* no failure reason.
AS_confirmation_no_silent_unrecorded ==
    /\ prog = "master" /\ pc = "as_confirm"
    /\ UNCHANGED legacyVars
    /\ internal_context' =
         add_to_internal_context(internal_context, "user_confirmations", FALSE)
    /\ AS_continue
    /\ UNCHANGED << runVars, exit_code, attempt, handler_instance, ghostVars,
                    proposals, final_summary >>

\* applescript.py:252-254, 258-260, 317-321  n with empty feedback: continue
AS_confirmation_no_silent ==
    /\ prog = "master" /\ pc = "as_confirm"
    /\ UNCHANGED legacyVars
    /\ internal_context' =
         add_to_internal_context(
           add_to_internal_context(internal_context, "user_confirmations", FALSE),
           "failure_reasons", "User said task not accomplished")
    /\ AS_continue
    /\ UNCHANGED << runVars, exit_code, attempt, handler_instance, ghostVars,
                    proposals, final_summary >>

\* A confirmation prompt that would take any other answer as a "no" without
\* feedback.
AS_confirmation_unrecognized_as_no ==
    AS_confirmation_no_silent

\* applescript.py:261-263  any other answer: print, ask again
AS_confirmation_unrecognized ==
    /\ prog = "master" /\ pc = "as_confirm"
    /\ UNCHANGED vars

\* ------------------------------------------------------- Agent.run

\* agent.py:707  sum(1 for entry in execution_history if entry.result.success)
run_successful_steps ==
    Cardinality({k \in DOMAIN execution_history : execution_history[k].success})

\* agent.py:118-131  route_to_handler: the pc at which each handler starts
route_to_handler(type) ==
    IF type = "applescript" THEN "ag_steps"
    ELSE IF type = "browser" THEN "br_launch"
    ELSE "automation_handler"

\* agent.py:83-113, 704  classify_task returns; the task is routed
AG_classify_task ==
    /\ prog = "legacy" /\ pc = "classify_task"
    /\ \E type \in LegacyTaskType, n \in 0..scope_steps :
         /\ taskType' = type
         /\ plan' = [k \in 1..n |-> type]
         /\ pc' = route_to_handler(type)
    /\ UNCHANGED << prog, plan_answer, scope_steps, scope_proposals, exit_code,
                    final_summary, step_i, invoked, resolved, stepVars,
                    ghostVars, proposals, masterVars, legacyVars >>

\* agent.py:114-116  classify_task: the service raises, sys.exit(1)
AG_classify_task_fails ==
    /\ prog = "legacy" /\ pc = "classify_task"
    /\ exit_code' = 1
    /\ pc' = "exited"
    /\ UNCHANGED << runVars, final_summary, step_i, invoked, resolved,
                    stepVars, ghostVars, proposals, masterVars, legacyVars >>

\* agent.py:216-222  automation_handler: not implemented, returns False
AG_automation_handler ==
    /\ prog = "legacy" /\ pc = "automation_handler"
    /\ handler_success' = FALSE
    /\ pc' = "generate_final_summary"
    /\ UNCHANGED << runVars, exit_code, final_summary, step_i, invoked,
                    resolved, stepVars, ghostVars, proposals, masterVars,
                    execution_history, attempted_scripts, successful_steps,
                    local_context, chrome_process, chrome_spawned,
                    chrome_alive >>

\* agent.py:436-481, 713  the summary service answers; sys.exit(0 if success else 1)
AG_generate_final_summary ==
    /\ prog = "legacy" /\ pc = "generate_final_summary"
    /\ final_summary' = "service"
    /\ exit_code' = IF handler_success = TRUE THEN 0 ELSE 1
    /\ pc' = "exited"
    /\ UNCHANGED << runVars, step_i, invoked, resolved, stepVars, ghostVars,
                    proposals, masterVars, legacyVars >>

\* agent.py:483-487, 713  the summary service raises: the templated fallback
AG_generate_final_summary_fallback ==
    /\ prog = "legacy" /\ pc = "generate_final_summary"
    /\ final_summary' = "fallback"
    /\ exit_code' = IF handler_success = TRUE THEN 0 ELSE 1
    /\ pc' = "exited"
    /\ UNCHANGED << runVars, step_i, invoked, resolved, stepVars, ghostVars,
                    proposals, masterVars, legacyVars >>

\* ------------------------------------ Agent.applescript_handler (legacy)

\* agent.py:242-245  the handler returns successful_steps == len(steps)
AG_handler_returns(done) ==
    /\ handler_success' = (done = Len(plan))
    /\ pc' = "generate_final_summary"

\* agent.py:231, 242-245  the for loop over the steps is exhausted
AG_applescript_handler_done ==
    /\ prog = "legacy" /\ pc = "ag_steps"
    /\ step_i > Len(plan)
    /\ AG_handler_returns(successful_steps)
    /\ UNCHANGED << runVars, exit_code, final_summary, step_i, invoked,
                    resolved, stepVars, ghostVars, proposals, masterVars,
                    execution_history, attempted_scripts, successful_steps,
                    local_context, chrome_process, chrome_spawned,
                    chrome_alive >>

\* agent.py:231-234, 247-250  the next step: _execute_applescript_step starts
AG_applescript_handler_step ==
    /\ prog = "legacy" /\ pc = "ag_steps"
    /\ step_i <= Len(plan)
    /\ invoked' = [invoked EXCEPT ![step_i] = @ + 1]
    /\ attempt' = 0
    /\ attempted_scripts' = << >>
    /\ local_context' = << "step" >>
    /\ gate_result' = "none"
    /\ ClearStep
    /\ pc' = "ag_attempt"
    /\ genCalls' = 0 /\ execCalls' = 0 /\ verifyCalls' = 0 /\ gateGenCalls' = 0 /\ gateFeedbacks' = 0
    /\ forced' = TRUE
    /\ UNCHANGED << runVars, exit_code, final_summary, step_i, resolved,
                    proposals, masterVars, execution_history,
                    successful_steps, handler_success, chrome_process,
                    chrome_spawned, chrome_alive >>

\* agent.py:257-258, 261-262, 278-280  continue: the next attempt
AG_continue ==
    /\ pc' = "ag_attempt"
    /\ ClearStep
    /\ UNCHANGED << step_i, invoked, resolved, successful_steps,
                    handler_success >>

\* agent.py:252-256, 284-314  a new attempt; the Generator returns a script
AG_generate ==
    /\ prog = "legacy" /\ pc = "ag_attempt"
    /\ attempt < legacy_attempts
    /\ proposals < scope_proposals
    /\ attempt' = attempt + 1
    /\ proposals' = proposals + 1
    /\ script' = proposals + 1
    /\ current_script' = proposals + 1
    /\ pc' = "ag_approval"
    /\ approved_script' = 0
    /\ execution_result' = NoResult
    /\ verification' = NoVerification
    /\ gate_result' = "none"
    /\ genCalls' = genCalls + 1
    /\ gateGenCalls' = 0
    /\ gateFeedbacks' = 0
    /\ UNCHANGED << runVars, exit_code, final_summary, step_i, invoked,
                    resolved, execCalls, verifyCalls, forced, masterVars, legacyVars >>

\* agent.py:252-258, 316-318  a new attempt; the Generator raises: continue
AG_generate_fails ==
    /\ prog = "legacy" /\ pc = "ag_attempt"
    /\ attempt < legacy_attempts
    /\ attempt' = attempt + 1
    /\ genCalls' = genCalls + 1
    /\ forced' = FALSE
    /\ AG_continue
    /\ UNCHANGED << runVars, exit_code, final_summary, gate_result, execCalls, verifyCalls,
                    gateGenCalls, gateFeedbacks, proposals, masterVars, execution_history,
                    attempted_scripts, local_context, chrome_process,
                    chrome_spawned, chrome_alive >>

\* A handler that would go on to the next step after a failed one.
AG_attempts_exhausted_goes_on ==
    /\ prog = "legacy" /\ pc = "ag_attempt"
    /\ attempt >= legacy_attempts
    /\ resolved' = Append(resolved, "failure")
    /\ step_i' = step_i + 1
    /\ pc' = "ag_steps"
    /\ ClearStep
    /\ UNCHANGED << runVars, exit_code, final_summary, invoked, attempt,
                    gate_result, ghostVars, proposals, masterVars,
                    execution_history, attempted_scripts, successful_steps,
                    local_context, handler_success, chrome_process,
                    chrome_spawned, chrome_alive >>

\* agent.py:252, 282, 237-245  the attempts are used up: the controller
\* returns False, the handler stops and returns
AG_attempts_exhausted ==
    /\ prog = "legacy" /\ pc = "ag_attempt"
    /\ attempt >= legacy_attempts
    /\ resolved' = Append(resolved, "failure")
    /\ AG_handler_returns(successful_steps)
    /\ ClearStep
    /\ UNCHANGED << runVars, exit_code, final_summary, step_i, invoked,
                    attempt, gate_result, ghostVars, proposals, masterVars,
                    execution_history, attempted_scripts, successful_steps,
                    local_context, chrome_process, chrome_spawned,
                    chrome_alive >>

\* agent.py:265  the script the controller executes after the gate said True:
\* its own local `script`; the gate's parameter of the same name is another
\* variable, rebound at agent.py:353
AG_script_to_execute == script

\* agent.py:328-331, 261-265  y / yes: the gate returns True
AG_approval_yes ==
    /\ prog = "legacy" /\ pc = "ag_approval"
    /\ approved_script' = AG_script_to_execute
    /\ gate_result' = "approved"
    /\ pc' = "ag_execute"
    /\ UNCHANGED << runVars, exit_code, final_summary, step_i, invoked,
                    resolved, attempt, script, current_script,
                    execution_result, verification, ghostVars, proposals,
                    masterVars, legacyVars >>

\* agent.py:332-354  n with feedback; the Generator returns a new script,
\* bound to the gate's own `script`
AG_approval_no_regenerate ==
    /\ prog = "legacy" /\ pc = "ag_approval"
    /\ proposals < scope_proposals
    /\ proposals' = proposals + 1
    /\ current_script' = proposals + 1
    /\ genCalls' = genCalls + 1
    /\ gateGenCalls' = gateGenCalls + 1
    /\ gateFeedbacks' = gateFeedbacks + 1
    /\ forced' = FALSE
    /\ UNCHANGED << runVars, pc, exit_code, final_summary, step_i, invoked,
                    resolved, attempt, script, approved_script,
                    execution_result, verification, gate_result, execCalls, verifyCalls,
                    masterVars, legacyVars >>

\* agent.py:332-347, 356-358, 261-262  n with feedback; the Generator
\* raises: the gate returns False, the controller continues
AG_approval_no_regenerate_fails ==
    /\ prog = "legacy" /\ pc = "ag_approval"
    /\ gate_result' = "rejected_feedback"
    /\ genCalls' = genCalls + 1
    /\ gateGenCalls' = gateGenCalls + 1
    /\ gateFeedbacks' = gateFeedbacks + 1
    /\ forced' = FALSE
    /\ AG_continue
    /\ UNCHANGED << runVars, exit_code, final_summary, attempt, execCalls, verifyCalls,
                    proposals, masterVars, execution_history,
                    attempted_scripts, local_context, chrome_process,
                    chrome_spawned, chrome_alive >>

\* agent.py:332-334, 359-360, 261-262  n with empty feedback: the gate
\* returns False, the controller continues
AG_approval_no_silent ==
    /\ prog = "legacy" /\ pc = "ag_approval"
    /\ gate_result' = "rejected_silent"
    /\ forced' = FALSE
    /\ AG_continue
    /\ UNCHANGED << runVars, exit_code, final_summary, attempt, genCalls,
                    execCalls, verifyCalls, gateGenCalls, gateFeedbacks, proposals, masterVars,
                    execution_history, attempted_scripts, local_context,
                    chrome_process, chrome_spawned, chrome_alive >>

\* agent.py:361-362  any other answer: print, loop
AG_approval_unrecognized ==
    /\ prog = "legacy" /\ pc = "ag_approval"
    /\ UNCHANGED vars

\* agent.py:265-270  the controller takes the executor's outcome and records
\* the attempt in attempted_scripts
AG_executed(result, history) ==
    /\ execution_result' = result
    /\ execution_history' = history
    /\ attempted_scripts' =
         Append(attempted_scripts,
                [script |-> approved_script, success |-> result.success])
    /\ execCalls' = execCalls + 1
    /\ UNCHANGED verifyCalls
    /\ forced' = (forced /\ ~result.success)
    /\ pc' = "ag_verify"
    /\ UNCHANGED << runVars, exit_code, final_summary, step_i, invoked,
                    resolved, attempt, script, current_script,
                    approved_script, verification, gate_result, genCalls,
                    gateGenCalls, gateFeedbacks, proposals, masterVars, successful_steps,
                    local_context, handler_success, chrome_process,
                    chrome_spawned, chrome_alive >>

\* agent.py:366-390  osascript ran and exited: the outcome is appended to
\* execution_history
AG_execute_script ==
    /\ prog = "legacy" /\ pc = "ag_execute"
    /\ \E rc \in {0, 1} :
         AG_executed(
           execution_result_exited(rc),
           Append(execution_history,
                  [kind |-> "script", script |-> approved_script,
                   success |-> execution_result_exited(rc).success]))

\* agent.py:392-394  subprocess.TimeoutExpired: nothing is appended
AG_execute_script_timeout ==
    /\ prog = "legacy" /\ pc = "ag_execute"
    /\ AG_executed(execution_result_timeout, execution_history)

\* agent.py:395-397  any other exception: nothing is appended
AG_execute_script_exception ==
    /\ prog = "legacy" /\ pc = "ag_execute"
    /\ AG_executed(execution_result_exception, execution_history)

\* agent.py:273-280, 234-236  what the controller does with the judgment
AG_after_verification(judgment) ==
    /\ verification' = judgment
    /\ verifyCalls' = verifyCalls + 1
    /\ IF judgment.accomplished
       THEN /\ resolved' = Append(resolved, "success")
            /\ successful_steps' = successful_steps + 1
            /\ step_i' = step_i + 1
            /\ pc' = "ag_steps"
            /\ script' = 0 /\ current_script' = 0 /\ approved_script' = 0
            /\ execution_result' = NoResult
            /\ UNCHANGED << invoked, local_context, handler_success >>
       ELSE /\ local_context' = Append(local_context, "Previous attempt failed")
            /\ pc' = "ag_attempt"
            /\ script' = 0 /\ current_script' = 0 /\ approved_script' = 0
            /\ execution_result' = NoResult
            /\ UNCHANGED << step_i, invoked, resolved, successful_steps,
                            handler_success >>

\* agent.py:431-434  the fallback judgment when the Verifier raises
\* (StepVerification.success is held in the field `accomplished`)
AG_fallback_verification(result) ==
    [accomplished |-> result.success, summary |-> Degraded]

\* agent.py:401-427  the Verifier answers
AG_verify_step_completion ==
    /\ prog = "legacy" /\ pc = "ag_verify"
    /\ \E success \in BOOLEAN :
         /\ AG_after_verification([accomplished |-> success, summary |-> "feedback"])
         /\ forced' = (forced /\ ~success)
    /\ UNCHANGED << runVars, exit_code, final_summary, attempt, gate_result,
                    genCalls, execCalls, gateGenCalls, gateFeedbacks, proposals, masterVars,
                    execution_history, attempted_scripts, chrome_process,
                    chrome_spawned, chrome_alive >>

\* agent.py:429-434  the Verifier raises: the fallback judgment
AG_verify_step_completion_raises ==
    /\ prog = "legacy" /\ pc = "ag_verify"
    /\ AG_after_verification(AG_fallback_verification(execution_result))
    /\ forced' = FALSE
    /\ UNCHANGED << runVars, exit_code, final_summary, attempt, gate_result,
                    genCalls, execCalls, gateGenCalls, gateFeedbacks, proposals, masterVars,
                    execution_history, attempted_scripts, chrome_process,
                    chrome_spawned, chrome_alive >>

\* --------------------------------- Agent._async_browser_handler (legacy)

\* agent.py:194-214  finally: terminate the Chrome process the handler holds;
\* then return successful_steps == len(steps)
BR_finally_return(done) ==
    /\ chrome_process' =
         IF chrome_process = "running" THEN "terminated" ELSE chrome_process
    /\ chrome_alive' = IF chrome_process = "running" THEN FALSE ELSE chrome_alive
    /\ handler_success' = (done = Len(plan))
    /\ pc' = "generate_final_summary"
    /\ UNCHANGED chrome_spawned

\* agent.py:150, 506-532  Chrome is started and answers the health check
BR_launch_chrome_debug ==
    /\ prog = "legacy" /\ pc = "br_launch"
    /\ chrome_process' = "running"
    /\ chrome_spawned' = TRUE
    /\ chrome_alive' = TRUE
    /\ pc' = "br_steps"
    /\ UNCHANGED << runVars, exit_code, final_summary, step_i, invoked,
                    resolved, stepVars, ghostVars, proposals, masterVars,
                    execution_history, attempted_scripts, successful_steps,
                    local_context, handler_success >>

\* agent.py:518-522, 534-536, 191-214  Popen raises: nothing was started; the
\* handler's except and finally run and it returns
BR_launch_popen_raises ==
    /\ prog = "legacy" /\ pc = "br_launch"
    /\ BR_finally_return(successful_steps)
    /\ UNCHANGED << runVars, exit_code, final_summary, step_i, invoked,
                    resolved, stepVars, ghostVars, proposals, masterVars,
                    execution_history, attempted_scripts, successful_steps,
                    local_context >>

\* agent.py:518-528, 534-536, 191-214  Chrome was started but the health check
\* raises: _launch_chrome_debug re-raises before returning the process, so
\* chrome_process is still None when finally runs
BR_launch_health_check_raises ==
    /\ prog = "legacy" /\ pc = "br_launch"
    /\ chrome_spawned' = TRUE
    /\ chrome_alive' = TRUE
    /\ handler_success' = (successful_steps = Len(plan))
    /\ pc' = "generate_final_summary"
    /\ UNCHANGED << runVars, exit_code, final_summary, step_i, invoked,
                    resolved, stepVars, ghostVars, proposals, masterVars,
                    execution_history, attempted_scripts, successful_steps,
                    local_context, chrome_process >>

\* agent.py:155, 194-214  the for loop over the steps is exhausted
BR_handler_done ==
    /\ prog = "legacy" /\ pc = "br_steps"
    /\ step_i > Len(plan)
    /\ BR_finally_return(successful_steps)
    /\ UNCHANGED << runVars, exit_code, final_summary, step_i, invoked,
                    resolved, stepVars, ghostVars, proposals, masterVars,
                    execution_history, attempted_scripts, successful_steps,
                    local_context >>

\* agent.py:155-159, 538-566  the next step: the extraction service returns
BR_extract_url_and_prompt ==
    /\ prog = "legacy" /\ pc = "br_steps"
    /\ step_i <= Len(plan)
    /\ proposals < scope_proposals
    /\ invoked' = [invoked EXCEPT ![step_i] = @ + 1]
    /\ proposals' = proposals + 1
    /\ script' = proposals + 1
    /\ current_script' = proposals + 1
    /\ approved_script' = 0
    /\ execution_result' = NoResult
    /\ verification' = NoVerification
    /\ gate_result' = "none"
    /\ attempt' = 0
    /\ genCalls' = 1 /\ execCalls' = 0 /\ verifyCalls' = 0 /\ gateGenCalls' = 0 /\ gateFeedbacks' = 0
    /\ forced' = FALSE
    /\ pc' = "br_approval"
    /\ UNCHANGED << runVars, exit_code, final_summary, step_i, resolved,
                    masterVars, legacyVars >>

\* agent.py:160-162, 568-570, 194-214  the extraction service raises: break
BR_extract_url_and_prompt_fails ==
    /\ prog = "legacy" /\ pc = "br_steps"
    /\ step_i <= Len(plan)
    /\ invoked' = [invoked EXCEPT ![step_i] = @ + 1]
    /\ resolved' = Append(resolved, "failure")
    /\ gate_result' = "none"
    /\ attempt' = 0
    /\ ClearStep
    /\ genCalls' = 1 /\ execCalls' = 0 /\ verifyCalls' = 0 /\ gateGenCalls' = 0 /\ gateFeedbacks' = 0
    /\ forced' = FALSE
    /\ BR_finally_return(successful_steps)
    /\ UNCHANGED << runVars, exit_code, final_summary, step_i, proposals,
                    masterVars, execution_history, attempted_scripts,
                    successful_steps, local_context >>

\* agent.py:170  the extraction the handler executes after the gate said
\* True: its own local `extraction`; the gate's parameter is rebound at
\* agent.py:603
BR_extraction_to_execute == script

\* agent.py:581-584, 165-170  y / yes: the gate returns True
BR_approval_yes ==
    /\ prog = "legacy" /\ pc = "br_approval"
    /\ approved_script' = BR_extraction_to_execute
    /\ gate_result' = "approved"
    /\ pc' = "br_execute"
    /\ UNCHANGED << runVars, exit_code, final_summary, step_i, invoked,
                    resolved, attempt, script, current_script,
                    execution_result, verification, ghostVars, proposals,
                    masterVars, legacyVars >>

\* agent.py:585-604  n with feedback; the extraction service returns a new
\* extraction, bound to the gate's own `extraction`
BR_approval_no_reextract ==
    /\ prog = "legacy" /\ pc = "br_approval"
    /\ proposals < scope_proposals
    /\ proposals' = proposals + 1
    /\ current_script' = proposals + 1
    /\ genCalls' = genCalls + 1
    /\ gateGenCalls' = gateGenCalls + 1
    /\ gateFeedbacks' = gateFeedbacks + 1
    /\ UNCHANGED << runVars, pc, exit_code, final_summary, step_i, invoked,
                    resolved, attempt, script, approved_script,
                    execution_result, verification, gate_result, execCalls, verifyCalls,
                    forced, masterVars, legacyVars >>

\* agent.py:165-167, 194-214  the gate returned False: break
BR_rejected ==
    /\ resolved' = Append(resolved, "failure")
    /\ ClearStep
    /\ BR_finally_return(successful_steps)
    /\ UNCHANGED << runVars, exit_code, final_summary, step_i, invoked,
                    attempt, execCalls, verifyCalls, forced, proposals, masterVars,
                    execution_history, attempted_scripts, successful_steps,
                    local_context >>

\* agent.py:585-600, 605-607  n with feedback; the extraction service fails:
\* the gate returns False
BR_approval_no_reextract_fails ==
    /\ prog = "legacy" /\ pc = "br_approval"
    /\ gate_result' = "rejected_feedback"
    /\ genCalls' = genCalls + 1
    /\ gateGenCalls' = gateGenCalls + 1
    /\ gateFeedbacks' = gateFeedbacks + 1
    /\ BR_rejected

\* agent.py:585-587, 608-609  n with empty feedback: the gate returns False
BR_approval_no_silent ==
    /\ prog = "legacy" /\ pc = "br_approval"
    /\ gate_result' = "rejected_silent"
    /\ UNCHANGED << genCalls, gateGenCalls, gateFeedbacks >>
    /\ BR_rejected

\* agent.py:610-611  any other answer: print, loop
BR_approval_unrecognized ==
    /\ prog = "legacy" /\ pc = "br_approval"
    /\ UNCHANGED vars

\* agent.py:170-189, 631-690  the browser step ran (an exception inside it is
\* returned as success False); the result is appended to execution_history;
\* on success the walk goes on, otherwise break
BR_execute_browser_step ==
    /\ prog = "legacy" /\ pc = "br_execute"
    /\ \E success \in BOOLEAN :
         /\ execution_history' =
              Append(execution_history,
                     [kind |-> "extraction", script |-> approved_script,
                      success |-> success])
         /\ resolved' = Append(resolved, IF success THEN "success" ELSE "failure")
         /\ IF success
            THEN /\ successful_steps' = successful_steps + 1
                 /\ local_context' = Append(local_context, "step completed")
                 /\ step_i' = step_i + 1
                 /\ pc' = "br_steps"
                 /\ UNCHANGED << handler_success, chrome_process,
                                 chrome_spawned, chrome_alive >>
            ELSE /\ BR_finally_return(successful_steps)
                 /\ UNCHANGED << successful_steps, local_context, step_i >>
    /\ execCalls' = execCalls + 1
    /\ UNCHANGED verifyCalls
    /\ ClearStep
    /\ UNCHANGED << runVars, exit_code, final_summary, invoked, attempt,
                    gate_result, genCalls, gateGenCalls, gateFeedbacks, forced, proposals,
                    masterVars, attempted_scripts >>

\* ------------------------------------- interrupts and failing prompts

\* master-agent.py:254-256  KeyboardInterrupt at a prompt: sys.exit(1)
MA_interrupt ==
    /\ prog = "master"
    /\ pc \in {"get_user_approval", "as_approval", "as_confirm"}
    /\ exit_code' = 1
    /\ pc' = "exited"
    /\ UNCHANGED << runVars, final_summary, walkVars, stepVars, ghostVars,
                    proposals, internal_context, handler_instance,
                    legacyVars >>

\* master-agent.py:257-259  input() raises (EOFError) in the plan review:
\* run's except Exception, sys.exit(1)
MA_get_user_approval_raises ==
    /\ prog = "master" /\ pc = "get_user_approval"
    /\ exit_code' = 1
    /\ pc' = "exited"
    /\ UNCHANGED << runVars, final_summary, walkVars, stepVars, ghostVars,
                    proposals, internal_context, handler_instance,
                    legacyVars >>

\* applescript.py:141, 148, 247, 254 with master-agent.py:197-199  input()
\* raises (EOFError) inside the handler: the exception leaves handle and is
\* caught by execute_steps
AS_handle_raises ==
    /\ prog = "master" /\ pc \in {"as_approval", "as_confirm"}
    /\ execute_steps_handler_raised
    /\ ClearStep
    /\ UNCHANGED << runVars, exit_code, final_summary, attempt, gate_result,
                    ghostVars, proposals, internal_context, handler_instance,
                    legacyVars >>

\* agent.py:715-717  KeyboardInterrupt at the script prompt: sys.exit(1)
AG_interrupt ==
    /\ prog = "legacy" /\ pc = "ag_approval"
    /\ exit_code' = 1
    /\ pc' = "exited"
    /\ UNCHANGED << runVars, final_summary, step_i, invoked, resolved,
                    stepVars, ghostVars, proposals, masterVars, legacyVars >>

\* agent.py:328, 333, 718-720  input() raises (EOFError) at the script
\* prompt: nothing in _get_user_approval, _execute_applescript_step or
\* applescript_handler catches it, so the step ends by the exception, which
\* reaches run's except Exception: sys.exit(1)
AG_approval_raises ==
    /\ prog = "legacy" /\ pc = "ag_approval"
    /\ resolved' = Append(resolved, "raised")
    /\ forced' = FALSE
    /\ exit_code' = 1
    /\ pc' = "exited"
    /\ UNCHANGED << runVars, final_summary, step_i, invoked, stepVars,
                    genCalls, execCalls, verifyCalls, gateGenCalls,
                    gateFeedbacks, proposals, masterVars, legacyVars >>

\* agent.py:194-209, 715-717  KeyboardInterrupt at the browser prompt: the
\* handler's finally runs, then sys.exit(1)
BR_interrupt ==
    /\ prog = "legacy" /\ pc = "br_approval"
    /\ chrome_process' =
         IF chrome_process = "running" THEN "terminated" ELSE chrome_process
    /\ chrome_alive' = IF chrome_process = "running" THEN FALSE ELSE chrome_alive
    /\ exit_code' = 1
    /\ pc' = "exited"
    /\ UNCHANGED << runVars, final_summary, step_i, invoked, resolved,
                    stepVars, ghostVars, proposals, masterVars,
                    execution_history, attempted_scripts, successful_steps,
                    local_context, handler_success, chrome_spawned >>

\* agent.py:581, 586, 191-214  input() raises (EOFError) at the browser
\* prompt: the handler's except and finally run and it returns
BR_approval_raises ==
    /\ prog = "legacy" /\ pc = "br_approval"
    /\ resolved' = Append(resolved, "raised")
    /\ ClearStep
    /\ BR_finally_return(successful_steps)
    /\ UNCHANGED << runVars, exit_code, final_summary, step_i, invoked,
                    attempt, gate_result, ghostVars, proposals, masterVars,
                    execution_history, attempted_scripts, successful_steps,
                    local_context >>

\* master-agent.py:232-259  MasterAgent.run and all it calls
NextMaster ==
    \/ MA_generate_plan
    \/ MA_generate_plan_fails
    \/ MA_get_user_approval_yes
    \/ MA_get_user_approval_replan
    \/ MA_get_user_approval_replan_fails
    \/ MA_get_user_approval_abort
    \/ MA_get_user_approval_unrecognized
    \/ MA_execute_steps_done
    \/ MA_execute_steps_no_handler
    \/ MA_execute_steps_call_research
    \/ MA_execute_steps_call_applescript
    \/ RS_handle
    \/ RS_handle_error
    \/ MA_generate_final_inference
    \/ MA_generate_final_inference_fails
    \/ AS_generate
    \/ AS_generate_fails
    \/ AS_attempts_exhausted
    \/ AS_approval_yes
    \/ AS_approval_no_regenerate
    \/ AS_approval_no_regenerate_fails
    \/ AS_approval_no_silent
    \/ AS_approval_unrecognized
    \/ AS_execute_applescript
    \/ AS_execute_applescript_timeout
    \/ AS_execute_applescript_exception
    \/ AS_verify_task_completion
    \/ AS_verify_task_completion_raises
    \/ AS_confirmation_yes
    \/ AS_confirmation_no_feedback
    \/ AS_confirmation_no_silent
    \/ AS_confirmation_unrecognized
    \/ AS_handle_raises
    \/ MA_interrupt
    \/ MA_get_user_approval_raises

\* agent.py:692-720  Agent.run and all it calls
NextLegacy ==
    \/ AG_classify_task
    \/ AG_classify_task_fails
    \/ AG_automation_handler
    \/ AG_generate_final_summary
    \/ AG_generate_final_summary_fallback
    \/ AG_applescript_handler_done
    \/ AG_applescript_handler_step
    \/ AG_generate
    \/ AG_generate_fails
    \/ AG_attempts_exhausted
    \/ AG_approval_yes
    \/ AG_approval_no_regenerate
    \/ AG_approval_no_regenerate_fails
    \/ AG_approval_no_silent
    \/ AG_approval_unrecognized
    \/ AG_execute_script
    \/ AG_execute_script_timeout
    \/ AG_execute_script_exception
    \/ AG_verify_step_completion
    \/ AG_verify_step_completion_raises
    \/ AG_interrupt
    \/ AG_approval_raises
    \/ BR_launch_chrome_debug
    \/ BR_launch_popen_raises
    \/ BR_launch_health_check_raises
    \/ BR_handler_done
    \/ BR_extract_url_and_prompt
    \/ BR_extract_url_and_prompt_fails
    \/ BR_approval_yes
    \/ BR_approval_no_reextract
    \/ BR_approval_no_reextract_fails
    \/ BR_approval_no_silent
    \/ BR_approval_unrecognized
    \/ BR_execute_browser_step
    \/ BR_interrupt
    \/ BR_approval_raises

Next == NextMaster \/ NextLegacy

Spec == Init /\ [][Next]_vars

SpecStep == InitStep /\ [][Next]_vars

\* applescript.py:281-326 and agent.py:252-280  the steps of the two step
\* controllers that wait for no human input: the loop head (Generator call
\* or exhaustion), the executor and the verifier.  Each is a blocking call
\* of a sequential program, which returns or raises.
ControllerStep ==
    \/ AS_generate \/ AS_generate_fails \/ AS_attempts_exhausted
    \/ AS_execute_applescript \/ AS_execute_applescript_timeout
    \/ AS_execute_applescript_exception
    \/ AS_verify_task_completion \/ AS_verify_task_completion_raises
    \/ AG_generate \/ AG_generate_fails \/ AG_attempts_exhausted
    \/ AG_execute_script \/ AG_execute_script_timeout
    \/ AG_execute_script_exception
    \/ AG_verify_step_completion \/ AG_verify_step_completion_raises

\* applescript.py:143-145, 146-147, 161-163 and agent.py:330-331, 359-360
\* the gate prompt is answered with accept or with a silent reject
GateAnswered ==
    \/ AS_approval_yes \/ AS_approval_no_silent
    \/ AG_approval_yes \/ AG_approval_no_silent

\* applescript.py:249-260  the confirmation prompt is answered y or n
ConfirmationAnswered ==
    \/ AS_confirmation_yes
    \/ AS_confirmation_no_feedback
    \/ AS_confirmation_no_silent

\* The one-step run in which the controllers' calls complete and the human
\* does not leave a prompt unanswered forever.
SpecStepLive ==
    /\ SpecStep
    /\ WF_vars(ControllerStep)
    /\ WF_vars(GateAnswered)
    /\ WF_vars(ConfirmationAnswered)

\* ============================================================ properties

\* The positions at which an executor is about to run the approved proposal.
ExecPcs == {"as_execute", "ag_execute", "br_execute"}

\* The positions at which the approval gate waits for the human's answer.
ApprovalPcs == {"as_approval", "ag_approval", "br_approval"}

\* ---------------------------------------------------------------- C1
\* C1: attempt cap.  A step controller never runs the executor more than N
\* times for one step (N = 5 in AppleScriptHandler.handle, N = 3 in
\* Agent._execute_applescript_step); and when every Generator call returned,
\* every proposal was accepted, every execution failed and every verifier
\* answer was not-accomplished, the controller has returned only after exactly
\* N attempts and N executor invocations, and it resolved Failure.
C1_AttemptCap ==
    /\ prog = "master" => (attempt <= 5 /\ execCalls <= 5)
    /\ (prog = "legacy" /\ taskType = "applescript")
         => (attempt <= 3 /\ execCalls <= 3)
    /\ (prog = "master" /\ forced /\ pc = "execute_steps" /\ Len(resolved) > 0)
         => ( /\ plan[Len(resolved)] = "applescript"
              /\ Last(resolved) = "failure"
              /\ attempt = 5 /\ execCalls = 5 /\ genCalls = 5 )
    /\ (prog = "legacy" /\ taskType = "applescript" /\ forced
          /\ Len(resolved) = step_i)
         => ( /\ Last(resolved) = "failure"
              /\ attempt = 3 /\ execCalls = 3 /\ genCalls = 3 )

\* C1 witness: the multi-step handler has returned Failure from a step whose
\* five attempts were all generated, accepted, executed without success and
\* judged not accomplished.
C1_Witness ==
    /\ prog = "master" /\ forced /\ pc = "execute_steps"
    /\ Len(resolved) > 0 /\ Last(resolved) = "failure"
    /\ execCalls = 5

\* ---------------------------------------------------------------- C2
\* C2: fail-fast on a failed step.  In MasterAgent.execute_steps, once a step
\* has resolved Failure, no handler is invoked for any later step of the plan.
C2_FailFastOnFailure ==
    prog = "master" =>
      \A k \in 1..Len(resolved) :
        resolved[k] = "failure" =>
          \A j \in (k + 1)..Len(plan) : invoked[j] = 0

\* ---------------------------------------------------------------- C3
\* C3: whenever an executor is about to run, the proposal handed to it is the
\* one the gate displayed last, i.e. the one the human accepted with y / yes.
C3_ExecutesAcceptedProposal ==
    pc \in ExecPcs => approved_script = current_script

\* ---------------------------------------------------------------- C4
\* C4: gate regeneration loop.  When the gate has returned Approved after K
\* reject-with-feedback answers, it called the Generator exactly K times and
\* the proposal it yields to the executor is the (K+1)-th one of that gate
\* call: the proposal it was entered with, followed by K regenerations.
C4_GateRegenerationLoop ==
    (pc \in ExecPcs /\ gate_result = "approved")
      => ( /\ gateGenCalls = gateFeedbacks
           /\ approved_script = script + gateFeedbacks )

\* ---------------------------------------------------------------- C5
\* C5: silent rejection at the controller level.  When the gate returns a
\* silent rejection while attempts remain below the cap, the step controller
\* goes back to the head of its loop for a new attempt and the step is not
\* resolved by that return.
C5_SilentRejectionRetries ==
    [][ ( /\ pc \in {"as_approval", "ag_approval"}
          /\ gate_result # "rejected_silent"
          /\ gate_result' = "rejected_silent"
          /\ attempt < (IF prog = "master" THEN 5 ELSE 3) )
        => ( /\ pc' \in {"as_attempt", "ag_attempt"}
             /\ attempt' = attempt
             /\ resolved' = resolved ) ]_vars

\* ---------------------------------------------------------------- C6
\* C6: silent rejection inside the gate.  The step on which a gate returns
\* the silent rejection calls no Generator, produces no proposal and does not
\* reach an executor; and an executor only ever runs after a gate returned
\* Approved, so the rejected attempt is never executed.
C6_SilentRejectionInGate ==
    /\ [][ ( /\ pc \in ApprovalPcs
             /\ gate_result # "rejected_silent"
             /\ gate_result' = "rejected_silent" )
           => ( /\ genCalls' = genCalls
                /\ gateGenCalls' = gateGenCalls
                /\ proposals' = proposals
                /\ execCalls' = execCalls
                /\ pc' \notin ExecPcs ) ]_vars
    /\ [](pc \in ExecPcs => gate_result = "approved")

\* C6 witness: a gate has just returned the silent rejection, on the first
\* proposal of the attempt.
C6_Witness ==
    /\ gate_result = "rejected_silent"
    /\ gateGenCalls = 0 /\ genCalls = 1 /\ execCalls = 0

\* ---------------------------------------------------------------- C7
\* C7: graceful verifier degradation.  When the Verifier service raises, the
\* judgment handed to the controller has accomplished equal to the execution
\* outcome's success flag, and the controller goes on from it as from any
\* judgment: accomplished leads to the human confirmation (multi-step) or to
\* the step resolving Success (legacy); not accomplished leads to the next
\* attempt with the step still unresolved.
C7_VerifierDegradation ==
    [][ ( /\ pc \in {"as_verify", "ag_verify"}
          /\ verification'.summary = Degraded )
        => ( /\ verification'.accomplished = execution_result.success
             /\ IF execution_result.success
                THEN \/ pc' = "as_confirm" /\ resolved' = resolved
                     \/ /\ pc' = "ag_steps"
                        /\ resolved' = Append(resolved, "success")
                ELSE /\ pc' \in {"as_attempt", "ag_attempt"}
                     /\ resolved' = resolved ) ]_vars

\* C7 witness: the Verifier raised after an execution that did not succeed;
\* the fallback judgment is not-accomplished and the handler is back at the
\* head of its loop.
C7_Witness ==
    /\ pc = "as_attempt"
    /\ verification.summary = Degraded
    /\ ~verification.accomplished
    /\ execCalls > 0

\* ---------------------------------------------------------------- C8
\* C8: fail-fast on handler exception.  When the handler of step k raised in
\* MasterAgent.execute_steps, k is the last step that was attempted, the
\* handlers of steps 1..k were each invoked exactly once and those of the
\* later steps not at all; the walk is over and the run goes on to the final
\* summary instead of terminating with the exception.
C8_FailFastOnException ==
    prog = "master" =>
      \A k \in 1..Len(resolved) :
        resolved[k] = "raised" =>
          /\ k = Len(resolved)
          /\ \A j \in 1..Len(plan) : invoked[j] = (IF j <= k THEN 1 ELSE 0)
          /\ Len(context) = k - 1
          /\ pc \in {"generate_final_inference", "exited"}
          /\ (pc = "generate_final_inference" => exit_code = -1)

\* C8 witness: the handler of the first step of a two-step plan raised; the
\* second step was never attempted and the run ended with its final summary.
C8_Witness ==
    /\ prog = "master" /\ Len(plan) = 2
    /\ resolved = << "raised" >>
    /\ invoked[1] = 1 /\ invoked[2] = 0
    /\ pc = "exited" /\ final_summary = "service"

\* ---------------------------------------------------------------- C9
\* C9: missing handler halts the plan.  No handler is ever invoked for a
\* browser or terminal step; the walk stops at the first such step k: no
\* handler is invoked for step k or any later step, and the context holds
\* only the results of steps 1..k-1.
C9_MissingHandlerHalts ==
    prog = "master" =>
      /\ \A j \in 1..Len(plan) :
           plan[j] \in {"browser", "terminal"} => invoked[j] = 0
      /\ \A k \in 1..Len(resolved) :
           resolved[k] = "no_handler" =>
             /\ k = Len(resolved)
             /\ plan[k] \in {"browser", "terminal"}
             /\ \A j \in k..Len(plan) : invoked[j] = 0
             /\ Len(context) = k - 1
             /\ Len(context_string) = k - 1
             /\ pc \in {"generate_final_inference", "exited"}

\* C9 witness: a two-step plan whose second step has no handler; the first
\* step's result is the only thing in the context and the run has ended.
C9_Witness ==
    /\ prog = "master" /\ Len(plan) = 2
    /\ Len(resolved) = 2 /\ resolved[2] = "no_handler"
    /\ invoked[1] = 1 /\ invoked[2] = 0
    /\ Len(context) = 1
    /\ pc = "exited"

\* ---------------------------------------------------------------- C10
\* C10: process exit code.  A run exits with code 0 only when every step of
\* the plan resolved Success; a run that has ended with a step that failed,
\* had no handler or whose handler raised exits with code 1.
C10_ExitCode ==
    /\ (pc = "exited" /\ exit_code = 0) =>
         ( /\ Len(resolved) = Len(plan)
           /\ \A k \in 1..Len(resolved) : resolved[k] = "success" )
    /\ (pc = "exited" /\ \E k \in 1..Len(resolved) : resolved[k] # "success")
         => exit_code = 1

\* ---------------------------------------------------------------- C11
\* C11: context append count.  In execute_steps, the step on which a plan
\* step resolves Success adds exactly one element at the end of the result
\* list and exactly one summary at the end of the context string; the step on
\* which the walk halts (missing handler, handler exception) appends nothing;
\* and once the walk is over nothing is appended and no handler is invoked
\* for the steps that were not attempted.
C11_ContextAppendCount ==
    [][ prog = "master" =>
        /\ resolved' = Append(resolved, "success")
             => ( /\ Len(context') = Len(context) + 1
                  /\ Len(context_string') = Len(context_string) + 1
                  /\ SubSeq(context', 1, Len(context)) = context
                  /\ SubSeq(context_string', 1, Len(context_string))
                       = context_string )
        /\ ( /\ Len(resolved') = Len(resolved) + 1
             /\ Last(resolved') \in {"no_handler", "raised"} )
             => ( /\ context' = context
                  /\ context_string' = context_string
                  /\ pc' = "generate_final_inference" )
        /\ pc \in {"generate_final_inference", "exited"}
             => ( /\ context' = context
                  /\ context_string' = context_string
                  /\ invoked' = invoked
                  /\ resolved' = resolved ) ]_vars

\* C11 witness: the first step of a two-step plan resolved Success and the
\* handler of the second raised; the run has ended with one result and one
\* summary in the context.
C11_Witness ==
    /\ prog = "master" /\ pc = "exited"
    /\ resolved = << "success", "raised" >>
    /\ Len(context) = 1 /\ Len(context_string) = 1

\* ---------------------------------------------------------------- C12
\* C12: only successful steps enter the context.  The result list and the
\* context string hold one entry per step that resolved Success and none for
\* a step that resolved Failure: no entry carries the error flag.
C12_OnlySuccessInContext ==
    prog = "master" =>
      /\ Len(context) =
           Cardinality({k \in 1..Len(resolved) : resolved[k] = "success"})
      /\ Len(context_string) = Len(context)
      /\ \A k \in 1..Len(context) : ~context[k].error

\* ---------------------------------------------------------------- C13
\* C13: success needs both confirmations in the multi-step path.  The human
\* confirmation prompt is shown only for an attempt whose script the gate
\* approved, that was executed and that was judged accomplished; handle
\* returns the success outcome only from that prompt, and the outcome carries
\* the approved script.  In the legacy path a step resolves Success directly
\* on the verifier step, from an accomplished judgment on an approved and
\* executed script, and there is no confirmation prompt.
C13_SuccessNeedsBothConfirmations ==
    /\ [](pc = "as_confirm" =>
            ( /\ prog = "master"
              /\ gate_result = "approved"
              /\ approved_script > 0
              /\ execution_result.kind # "none"
              /\ verification.accomplished ))
    /\ [][ ( /\ prog = "master"
             /\ pc \notin {"research_handle"}
             /\ resolved' = Append(resolved, "success") )
           => ( /\ pc = "as_confirm"
                /\ plan[step_i] = "applescript"
                /\ ~Last(context').error
                /\ Last(context').applescript = approved_script ) ]_vars
    /\ [][ ( /\ prog = "legacy" /\ taskType = "applescript"
             /\ resolved' = Append(resolved, "success") )
           => ( /\ pc = "ag_verify"
                /\ gate_result = "approved"
                /\ execution_result.kind # "none"
                /\ verification'.accomplished ) ]_vars

\* C13 witness: the multi-step handler has returned the success outcome of
\* an applescript step, after one execution and the human's confirmation.
C13_Witness ==
    /\ prog = "master" /\ pc = "execute_steps"
    /\ Len(resolved) = 1 /\ resolved[1] = "success"
    /\ plan[1] = "applescript"
    /\ context[1].applescript > 0
    /\ execCalls = 1

\* ---------------------------------------------------------------- C14
\* C14: execution is always followed by verification.  In both retry
\* controllers the step taken from the executor's position is the executor
\* returning its outcome (success, non-zero exit, timeout or launch error
\* alike) to the verifier's position; the step taken from the verifier's
\* position is one verifier call, in the multi-step handler recorded for the
\* script that was executed; so outside the verifier's position the verifier
\* has been called exactly once per executor invocation, and at it exactly
\* one call is outstanding.
C14_ExecutionThenVerification ==
    /\ []( (prog = "master" \/ taskType = "applescript") =>
             execCalls = verifyCalls
                         + (IF pc \in {"as_verify", "ag_verify"} THEN 1 ELSE 0) )
    /\ [][ (pc \in {"as_execute", "ag_execute"})
           => ( /\ pc' = (IF pc = "as_execute" THEN "as_verify" ELSE "ag_verify")
                /\ execCalls' = execCalls + 1
                /\ verifyCalls' = verifyCalls
                /\ execution_result'.kind \in {"exited", "timed out", "exception"}
                /\ approved_script' = approved_script ) ]_vars
    /\ [][ (pc \in {"as_verify", "ag_verify"})
           => ( /\ verifyCalls' = verifyCalls + 1
                /\ execCalls' = execCalls
                /\ verification'.summary # "none"
                /\ pc' \notin {"as_verify", "ag_verify"}
                /\ pc = "as_verify" =>
                     Last(internal_context'.llm_assessments) = approved_script
              ) ]_vars

\* C14 witness: in the multi-step handler two executions of one step, neither
\* judged accomplished, have each been followed by their verifier call.
C14_Witness ==
    /\ prog = "master" /\ pc = "as_attempt"
    /\ execCalls = 2 /\ verifyCalls = 2
    /\ verification.summary # "none" /\ ~verification.accomplished

\* ---------------------------------------------------------------- C15
\* The positions inside the plan walk, and those of the summarization call.
WalkPcs ==
    {"execute_steps", "research_handle", "as_attempt", "as_approval",
     "as_execute", "as_verify", "as_confirm", "ag_steps", "ag_attempt",
     "ag_approval", "ag_execute", "ag_verify", "automation_handler",
     "br_launch", "br_steps", "br_approval", "br_execute"}
SummaryPcs == {"generate_final_inference", "generate_final_summary"}

\* C15: the final summary always runs after a plan walk.  Whenever the walk
\* is left with a step resolved (Success, Failure, no handler, handler
\* exception) or is left other than by the process exiting, control is at the
\* summarization call; and the summarization call always yields a report
\* before the process exits.  Only a step that leaves the walk by exiting
\* without resolving anything (the user's interrupt) is exempt.
C15_SummaryAlwaysRuns ==
    /\ [][ ( /\ pc \in WalkPcs /\ pc' \notin WalkPcs
             /\ (resolved' # resolved \/ pc' # "exited") )
           => pc' \in SummaryPcs ]_vars
    /\ [][ (pc \in SummaryPcs /\ pc' # pc)
           => (pc' = "exited" /\ final_summary' # "none") ]_vars

\* ---------------------------------------------------------------- C16
\* C16: summarization fallback.  The summarization call ends either with the
\* service's summary or, when the service raised, with the templated summary
\* built from the step counts; in both cases the run goes on to its normal
\* end.
C16_SummarizationFallback ==
    [][ (pc \in SummaryPcs /\ pc' # pc)
        => ( /\ final_summary' \in {"service", "fallback"}
             /\ pc' = "exited"
             /\ exit_code' \in {0, 1} ) ]_vars

\* ---------------------------------------------------------------- C17
\* C17: plan review loop.  While the plan is under review no step has been
\* executed and no summary made; a run that ends from the review exits with
\* code 1, still with no step executed and no summary; a step of the review
\* that changes the plan stays in the review, so the new plan is presented
\* for approval; the plan with which execute_steps is entered is the plan
\* that was under review on that step; and the plan never changes once the
\* walk has begun.
C17_PlanReviewLoop ==
    /\ [](pc = "get_user_approval" =>
            ( /\ prog = "master"
              /\ \A j \in DOMAIN invoked : invoked[j] = 0
              /\ resolved = << >> /\ context = << >>
              /\ final_summary = "none" ))
    /\ [][ (pc = "get_user_approval" /\ pc' = "exited")
           => ( /\ exit_code' = 1
                /\ final_summary' = "none"
                /\ invoked' = invoked /\ resolved' = resolved ) ]_vars
    /\ [][ (pc = "get_user_approval" /\ plan' # plan)
           => pc' = "get_user_approval" ]_vars
    /\ [][ (pc = "get_user_approval" /\ pc' # pc)
           => (plan' = plan /\ pc' \in {"execute_steps", "exited"}) ]_vars
    /\ [][ (prog = "master" /\ pc \notin {"generate_plan", "get_user_approval"})
           => plan' = plan ]_vars

\* C17 witness: a two-step plan was under review and the run has ended with
\* exit code 1, no step executed and no summary.
C17_Witness ==
    /\ prog = "master" /\ pc = "exited" /\ exit_code = 1
    /\ Len(plan) = 2
    /\ \A j \in DOMAIN invoked : invoked[j] = 0
    /\ resolved = << >> /\ final_summary = "none"

\* ---------------------------------------------------------------- C18
\* C18: the executor never raises.  Every step taken from an executor's
\* position hands an outcome record to the verifier's position without
\* resolving the step or ending the run; the record reports success exactly
\* when osascript exited with status 0, and a timeout or a launch exception
\* is reported as success = false with return code -1.
C18_ExecutorNeverRaises ==
    [][ (pc \in {"as_execute", "ag_execute"})
        => ( /\ pc' \in {"as_verify", "ag_verify"}
             /\ resolved' = resolved
             /\ exit_code' = exit_code
             /\ execution_result'.kind \in {"exited", "timed out", "exception"}
             /\ execution_result'.success
                  <=> ( /\ execution_result'.kind = "exited"
                        /\ execution_result'.return_code = 0 )
             /\ execution_result'.kind \in {"timed out", "exception"}
                  => execution_result'.return_code = -1 ) ]_vars

\* C18 witness: the executor timed out and its outcome record, success =
\* false with return code -1, is before the verifier.
C18_Witness ==
    /\ pc \in {"as_verify", "ag_verify"}
    /\ execution_result.kind = "timed out"
    /\ ~execution_result.success
    /\ execution_result.return_code = -1

\* ---------------------------------------------------------------- C19
\* C19: the execution history is complete.  Every executor invocation adds
\* exactly one entry, for the script it ran, at the end of the calling
\* controller's execution log (internal_context.executed_scripts in the
\* multi-step handler, Agent.execution_history in the legacy path), whatever
\* the outcome; and no step removes or rewrites an entry of either log.
C19_ExecutionHistoryComplete ==
    /\ [][ (pc = "as_execute" /\ execCalls' = execCalls + 1)
           => internal_context'.executed_scripts
                = Append(internal_context.executed_scripts, approved_script)
         ]_vars
    /\ [][ (pc = "ag_execute" /\ execCalls' = execCalls + 1)
           => ( /\ Len(execution_history') = Len(execution_history) + 1
                /\ Last(execution_history').script = approved_script ) ]_vars
    /\ [][ /\ Len(execution_history') >= Len(execution_history)
           /\ SubSeq(execution_history', 1, Len(execution_history))
                = execution_history
           /\ Len(internal_context'.executed_scripts)
                >= Len(internal_context.executed_scripts)
           /\ SubSeq(internal_context'.executed_scripts, 1,
                     Len(internal_context.executed_scripts))
                = internal_context.executed_scripts ]_vars

\* ---------------------------------------------------------------- C20
\* C20: the attempt history is per step.  When the multi-step handler is at
\* the head of its loop before the first attempt of a step, the history from
\* which the Generator request is built (internal_context) is empty: it
\* holds no proposal, approval, feedback, execution, assessment or failure
\* reason of an earlier step.
C20_AttemptHistoryPerStep ==
    (prog = "master" /\ pc = "as_attempt" /\ attempt = 0)
      => internal_context = EmptyInternalContext

\* ---------------------------------------------------------------- C21
\* C21: steps run strictly in plan order.  The step on which execute_steps
\* invokes a handler invokes the handler of exactly one step, the step k the
\* walk is at, which was never invoked before; at that moment every earlier
\* step has been invoked exactly once and no later step at all, and the
\* result list and the context string passed to the handler hold exactly the
\* results and summaries of steps 1..k-1, in plan order.  No handler is ever
\* invoked more than once.
C21_StepsInPlanOrder ==
    /\ [](prog = "master" => \A j \in DOMAIN invoked : invoked[j] <= 1)
    /\ [][ (prog = "master" /\ invoked' # invoked)
           => ( /\ pc = "execute_steps"
                /\ step_i \in 1..Len(plan)
                /\ invoked' = [invoked EXCEPT ![step_i] = 1]
                /\ \A j \in 1..Len(plan) :
                     invoked[j] = (IF j < step_i THEN 1 ELSE 0)
                /\ Len(context) = step_i - 1
                /\ Len(context_string) = step_i - 1
                /\ \A j \in 1..(step_i - 1) :
                     /\ context[j].prompt = j
                     /\ context_string[j].prompt = j
                /\ context' = context /\ context_string' = context_string
              ) ]_vars

\* C21 witness: both handlers of a two-step plan have been invoked, the
\* second with the first step's summary in the context string, and both
\* summaries are in the context in plan order.
C21_Witness ==
    /\ prog = "master" /\ Len(plan) = 2
    /\ invoked[1] = 1 /\ invoked[2] = 1
    /\ Len(context_string) = 2
    /\ context_string[1].prompt = 1 /\ context_string[2].prompt = 2

\* ---------------------------------------------------------------- C22
\* C22: attempts do not overlap.  A new attempt (the attempt counter
\* advancing, with its Generator call) starts only at the head of the
\* controller's loop, when the verifier has answered for every execution of
\* the step and no accomplished judgment is waiting for the human; in the
\* multi-step handler an accomplished judgment always leads to the
\* confirmation prompt within the same attempt, and the loop head is reached
\* from that prompt only by the human's answer being recorded.
C22_AttemptsDoNotOverlap ==
    /\ [][ (attempt' = attempt + 1)
           => ( /\ pc \in {"as_attempt", "ag_attempt"}
                /\ execCalls = verifyCalls
                /\ ~verification.accomplished
                /\ genCalls' = genCalls + 1 ) ]_vars
    /\ [][ (pc = "as_verify" /\ verification'.accomplished)
           => (pc' = "as_confirm" /\ attempt' = attempt) ]_vars
    /\ [][ (pc = "as_confirm" /\ pc' = "as_attempt")
           => ( /\ internal_context'.user_confirmations
                     = Append(internal_context.user_confirmations, FALSE)
                /\ attempt' = attempt ) ]_vars

\* C22 witness: the second attempt of a step is at the gate; the first was
\* executed, judged by the verifier and denied by the human at the
\* confirmation prompt.
C22_Witness ==
    /\ prog = "master" /\ pc = "as_approval" /\ attempt = 2
    /\ execCalls = 1 /\ verifyCalls = 1
    /\ Len(internal_context.user_confirmations) = 1

\* ---------------------------------------------------------------- C23
\* C23: guaranteed browser teardown.  Once the legacy browser handler has
\* returned (the run is at the final summary or has exited), every Chrome
\* process that was spawned has been terminated.
C23_BrowserTeardown ==
    (prog = "legacy" /\ pc \in {"generate_final_summary", "exited"}
       /\ chrome_spawned)
      => ~chrome_alive

\* ---------------------------------------------------------------- C24
\* The prompts of the program: plan review, script approval in both paths,
\* browser approval, task confirmation.
PromptPcs ==
    {"get_user_approval", "as_approval", "as_confirm", "ag_approval",
     "br_approval"}

C25_GeneratorFailureCostsOneAttempt ==
    /\ [] ( (pc \in {"as_approval", "ag_approval"} \cup ExecPcs)
              => (proposals > 0 /\ current_script > 0) )
    /\ [] ( (prog = "master" /\ pc = "execute_steps" /\ Len(resolved) = 1
               /\ plan[1] = "applescript" /\ proposals = 0)
              => ( /\ resolved[1] = "failure"
                   /\ attempt = 5 /\ genCalls = 5 /\ gateGenCalls = 0
                   /\ execCalls = 0 /\ verifyCalls = 0
                   /\ internal_context.user_approvals = << >>
                   /\ internal_context.executed_scripts = << >> ) )
    /\ [] ( (prog = "legacy" /\ taskType = "applescript" /\ proposals = 0
               /\ Len(resolved) = 1)
              => ( /\ resolved[1] = "failure"
                   /\ attempt = 3 /\ genCalls = 3 /\ gateGenCalls = 0
                   /\ execCalls = 0 /\ verifyCalls = 0
                   /\ attempted_scripts = << >> ) )
    /\ [][ ( /\ pc \in {"as_attempt", "ag_attempt"}
             /\ genCalls' = genCalls + 1
             /\ proposals' = proposals )
           => ( /\ attempt' = attempt + 1
                /\ pc' = pc
                /\ execCalls' = execCalls /\ verifyCalls' = verifyCalls
                /\ internal_context' = internal_context
                /\ attempted_scripts' = attempted_scripts ) ]_vars

\* C25 witness: the multi-step handler has returned Failure from a step in
\* which all five Generator calls failed.
C25_Witness ==
    /\ prog = "master" /\ pc = "execute_steps" /\ Len(resolved) = 1
    /\ plan[1] = "applescript" /\ proposals = 0
    /\ resolved[1] = "failure" /\ genCalls = 5 /\ execCalls = 0

\* ---------------------------------------------------------------- C26
\* C26: attempt-cap exhaustion is a returned value.  When
\* AppleScriptHandler.handle gives up on a step after its attempts are used
\* up, the step resolves by a returned failure outcome (error flag set,
\* summary 'Failed after 5 attempts'), not by an exception, and execute_steps
\* treats the step as failed: it ends the walk as it does for every other
\* failed step, instead of going on as after a completed one.
C26_ExhaustionIsInspectedFailure ==
    [][ ( /\ prog = "master" /\ pc = "as_attempt"
          /\ attempt >= max_attempts /\ pc' # pc )
        => ( /\ resolved' = Append(resolved, "failure")
             /\ Len(context') > 0
             /\ Last(context').error
             /\ Last(context').summary_attempts = 5
             /\ step_i' = step_i
             /\ pc' = "generate_final_inference" ) ]_vars

\* ---------------------------------------------------------------- C27
\* s is a prefix of t.
IsPrefix(s, t) ==
    /\ Len(s) <= Len(t)
    /\ \A k \in 1..Len(s) : s[k] = t[k]

\* C27: the execution context is append-only.  Every change to
\* MasterAgent.context and every change to context_string adds exactly one
\* entry at the end, so each earlier value is a prefix of every later one;
\* and from the moment the plan was accepted, the walk never changes the plan.
C27_ContextAppendOnly ==
    /\ [][ (context' # context)
           => ( /\ prog = "master" /\ pc \in WalkPcs
                /\ Len(context') = Len(context) + 1
                /\ IsPrefix(context, context') ) ]_vars
    /\ [][ (context_string' # context_string)
           => ( /\ prog = "master" /\ pc \in WalkPcs
                /\ Len(context_string') = Len(context_string) + 1
                /\ IsPrefix(context_string, context_string') ) ]_vars
    /\ [][ (prog = "master" /\ pc \in WalkPcs) => plan' = plan ]_vars

\* C27 witness: the walk of a two-step plan is over with two results and two
\* summaries recorded, the older one first.
C27_Witness ==
    /\ prog = "master" /\ pc = "generate_final_inference"
    /\ Len(plan) = 2
    /\ Len(context) = 2 /\ Len(context_string) = 2
    /\ context[1].prompt = 1 /\ context[2].prompt = 2

\* ---------------------------------------------------------------- C28
\* C28: every prior attempt is fed back.  When the controller is at the head
\* of its loop in the first step of a run, about to send the Generator
\* request of the next attempt, the history that request is built from holds
\* every proposal made so far in the step, rejected and never executed ones
\* included: internal_context.proposed_scripts in the multi-step handler,
\* attempted_scripts in the legacy controller.
C28_EveryPriorAttemptFedBack ==
    /\ ( /\ prog = "master" /\ pc = "as_attempt" /\ Len(resolved) = 0
         /\ attempt < max_attempts )
         => \A p \in 1..proposals :
              \E k \in DOMAIN internal_context.proposed_scripts :
                internal_context.proposed_scripts[k] = p
    /\ ( /\ prog = "legacy" /\ taskType = "applescript" /\ pc = "ag_attempt"
         /\ Len(resolved) = 0 /\ attempt < legacy_attempts )
         => \A p \in 1..proposals :
              \E k \in DOMAIN attempted_scripts :
                attempted_scripts[k].script = p

\* ---------------------------------------------------------------- C29
\* C29: one failure reason per unsuccessful executed attempt.  In the
\* multi-step handler an executed attempt that goes back to the loop head
\* appends exactly one entry to failure_reasons: the verifier's summary when
\* the verifier said not accomplished, the human's feedback or the default
\* text when the human denied at the confirmation prompt.  An attempt that
\* resolves Success appends none, and nothing else touches the list.  So in
\* the first step of a run the list holds one reason per execution at every
\* loop head and on a returned Failure, and one fewer than the executions on
\* a returned Success.
C29_OneFailureReasonPerFailedAttempt ==
    /\ [] ( (prog = "master" /\ pc = "as_attempt" /\ Len(resolved) = 0)
              => Len(internal_context.failure_reasons) = execCalls )
    /\ [] ( (prog = "master" /\ pc = "execute_steps" /\ Len(resolved) = 1
               /\ plan[1] = "applescript")
              => Len(internal_context.failure_reasons) =
                   IF resolved[1] = "success" THEN execCalls - 1
                   ELSE execCalls )
    /\ [][ (pc = "as_verify" /\ pc' = "as_attempt")
           => ( /\ ~verification'.accomplished
                /\ internal_context'.failure_reasons =
                     Append(internal_context.failure_reasons,
                            "verification.summary") ) ]_vars
    /\ [][ (pc = "as_confirm" /\ pc' = "as_attempt")
           => \E reason \in {"feedback", "User said task not accomplished"} :
                internal_context'.failure_reasons =
                  Append(internal_context.failure_reasons, reason) ]_vars
    /\ [][ ( \/ pc \notin {"as_verify", "as_confirm"}
             \/ pc' = "as_confirm"
             \/ resolved' = Append(resolved, "success") )
           => internal_context'.failure_reasons
                = internal_context.failure_reasons ]_vars

\* C29 witness: a step resolved Success on its third execution; the first
\* attempt was judged not accomplished by the verifier and the second was
\* denied by the human, which left two failure reasons.
C29_Witness ==
    /\ prog = "master" /\ pc = "execute_steps" /\ Len(resolved) = 1
    /\ resolved[1] = "success" /\ execCalls = 3
    /\ internal_context.failure_reasons
         = << "verification.summary", "User said task not accomplished" >>

\* ---------------------------------------------------------------- C30
\* C30: executor invocations are bounded although Generator calls are not.
\* In one call of the step controller the executor runs at most once per
\* attempt, hence at most 5 times in the multi-step handler and 3 times in
\* the legacy controller; a Generator call made inside the gate after a
\* reject-with-feedback leaves the attempt counter and the number of
\* executions as they were, so the Generator calls of a step are not bounded
\* by the attempt cap.
C30_ExecutionsBoundedGenerationsNot ==
    /\ [] ( prog = "master"
              => (execCalls <= attempt /\ attempt <= 5 /\ execCalls <= 5) )
    /\ [] ( (prog = "legacy" /\ taskType = "applescript")
              => (execCalls <= attempt /\ attempt <= 3 /\ execCalls <= 3) )
    /\ [][ (pc \in {"as_approval", "ag_approval"} /\ genCalls' # genCalls)
           => ( /\ genCalls' = genCalls + 1
                /\ gateGenCalls' = gateGenCalls + 1
                /\ attempt' = attempt
                /\ execCalls' = execCalls ) ]_vars
    /\ [][ (execCalls' # execCalls /\ pc \in {"as_execute", "ag_execute"})
           => ( /\ execCalls' = execCalls + 1 /\ execCalls < attempt
                /\ genCalls' = genCalls ) ]_vars

\* C30 witness: still in the first attempt of a step, the multi-step
\* handler's gate has taken five rejections with feedback: six Generator
\* calls, more than the attempt cap, and not one execution yet.
C30_Witness ==
    /\ prog = "master" /\ pc = "as_approval" /\ attempt = 1
    /\ genCalls = 6 /\ gateGenCalls = 5 /\ execCalls = 0
    /\ genCalls > max_attempts

\* ---------------------------------------------------------------- C31
\* C31: no plan runs without acceptance.  Whenever MasterAgent.execute_steps
\* has been started (control is in the walk, or a handler has been invoked),
\* the human's last answer at the plan review prompt was y / yes, i.e. the
\* plan being walked is one the human accepted; a plan rejected with
\* feedback whose regeneration failed is not executed.
C31_NoPlanRunsWithoutAcceptance ==
    (prog = "master"
       /\ (pc \in WalkPcs \/ \E j \in DOMAIN invoked : invoked[j] > 0))
      => plan_answer = "y"

\* ---------------------------------------------------------------- C32
\* C32: the successful-step count is a step count.  When the legacy run is
\* about to produce its final summary, the successful_steps value it passes
\* (the number of execution_history entries whose result reports success)
\* does not exceed total_steps = len(classification.steps) and equals the
\* number of plan steps that resolved Success.
C32_SuccessfulStepsIsStepCount ==
    (prog = "legacy" /\ pc = "generate_final_summary")
      => ( /\ run_successful_steps <= Len(plan)
           /\ run_successful_steps =
                Cardinality({k \in DOMAIN resolved : resolved[k] = "success"}) )

\* ---------------------------------------------------------------- C33
\* C33: gate failure during regeneration.  When AppleScriptHandler.handle has
\* returned the failure outcome of a step, whether after a silent rejection,
\* after a failed regeneration inside the gate or after using up its
\* attempts, the attempt count stated in the outcome's summary ('Failed after
\* N attempts') equals the number of attempts the handler actually made.
C33_StatedAttemptsAreAttemptsMade ==
    ( /\ prog = "master" /\ pc = "execute_steps" /\ Len(resolved) > 0
      /\ plan[Len(resolved)] = "applescript"
      /\ Last(resolved) = "failure" )
      => ( /\ Last(context).error
           /\ Last(context).summary_attempts = attempt )

\* ---------------------------------------------------------------- C34
\* The legacy handler has returned to Agent.run: the run is at its final
\* summary or has exited after producing it.
AG_handler_returned ==
    \/ pc = "generate_final_summary"
    \/ (pc = "exited" /\ final_summary # "none")

\* C34: the legacy plan walk.  Agent.applescript_handler starts the
\* controller of each step at most once and in plan order, each one only
\* after every earlier step resolved Success; once a step's controller has
\* returned failure the handler returns without starting a later step; the
\* handler returns true exactly when every step of the plan resolved Success
\* (a plan of zero steps included), and the run then exits 0, otherwise 1.
C34_LegacyPlanWalk ==
    /\ [] ( (prog = "legacy" /\ taskType = "applescript")
              => ( /\ \A j \in 1..Len(plan) :
                        /\ invoked[j] <= 1
                        /\ invoked[j] = 1
                             => \A k \in 1..(j - 1) :
                                  /\ invoked[k] = 1
                                  /\ k <= Len(resolved)
                                  /\ resolved[k] = "success"
                   /\ \A k \in 1..Len(resolved) :
                        resolved[k] = "failure"
                          => ( /\ k = Len(resolved)
                               /\ \A j \in (k + 1)..Len(plan) : invoked[j] = 0
                               /\ pc \in {"generate_final_summary", "exited"}
                               /\ handler_success = FALSE )
                   /\ AG_handler_returned
                        => ( handler_success
                               = ( /\ Len(resolved) = Len(plan)
                                   /\ \A k \in 1..Len(plan) :
                                        resolved[k] = "success" ) )
                   /\ (pc = "exited" /\ AG_handler_returned)
                        => exit_code = IF handler_success THEN 0 ELSE 1 ) )
    /\ [][ (prog = "legacy" /\ taskType = "applescript" /\ invoked' # invoked)
           => ( /\ pc = "ag_steps" /\ step_i = Len(resolved) + 1
                /\ invoked' = [invoked EXCEPT ![step_i] = 1] ) ]_vars

\* C34 witness: a legacy plan of two steps whose first step used up its
\* attempts: the handler returned false, the second step was never started
\* and the run exited with status 1.
C34_Witness ==
    /\ prog = "legacy" /\ taskType = "applescript" /\ Len(plan) = 2
    /\ resolved = << "failure" >>
    /\ invoked[1] = 1 /\ invoked[2] = 0
    /\ handler_success = FALSE
    /\ pc = "exited" /\ exit_code = 1

\* ---------------------------------------------------------------- C35
\* The positions inside a call of AppleScriptHandler.handle or of
\* Agent._execute_applescript_step.
ControllerPcs ==
    {"as_attempt", "as_approval", "as_execute", "as_verify", "as_confirm",
     "ag_attempt", "ag_approval", "ag_execute", "ag_verify"}

\* The step controller has returned an outcome: control is back in the plan
\* walk or beyond, and the step resolved Success or Failure.
ControllerReturned ==
    /\ pc \notin ControllerPcs
    /\ Len(resolved) > 0
    /\ Last(resolved) \in {"success", "failure"}

\* A prompt was not answered at all: input() raised, or the user interrupted
\* the run, which then exited without a report.
InputAbandoned ==
    \/ \E k \in DOMAIN resolved : resolved[k] = "raised"
    \/ (pc = "exited" /\ final_summary = "none")

\* C35: the step controller terminates.  When every gate prompt is
\* eventually answered with accept or silent reject and every confirmation
\* prompt with y or n, each call of AppleScriptHandler.handle and of
\* Agent._execute_applescript_step eventually returns a success outcome or a
\* failure outcome (unless a prompt was abandoned by EOF or interrupt).
C35_StepControllerTerminates ==
    (pc \in ControllerPcs) ~> (ControllerReturned \/ InputAbandoned)

\* C35 witness: the multi-step handler has returned Failure after five
\* attempts of which some were executed and some were not.
C35_Witness ==
    /\ prog = "master" /\ ControllerReturned
    /\ Last(resolved) = "failure" /\ attempt = 5
    /\ execCalls = 2 /\ genCalls > 5

C37_FeedbackAttributedToItsProposal ==
    prog = "master" =>
      \A i \in 1..Len(internal_context.user_approvals) :
        (i \in DOMAIN internal_context.user_feedback)
          = ~internal_context.user_approvals[i]

====
